---- MODULE Spec2Model ----
(***************************************************************************)
(* ccbell: cooldown state (internal/state), quiet hours and event          *)
(* configuration (internal/config), the entry point run() with its         *)
(* environment, sound resolution and playback (internal/audio), and the    *)
(* debug log with its rotation.                                            *)
(***************************************************************************)
EXTENDS Integers, Sequences, FiniteSets, TLC

(***************************************************************************)
(* Bounds of the model.                                                    *)
(***************************************************************************)
\* Unix time (seconds) at which the behaviours start.
StartClock == 3
\* Number of seconds the clock may advance.
MaxTicks == 1
\* Number of tokens of the longest sound specification resolved.
MaxSpecLen == 4
\* Number of lines at which a log file is rotated (MaxLogSize, scaled down
\* from the 1 MiB of part_005:14 to lines of size one).
MaxLogSize == 2
\* Number of Debug calls made on one Logger.
MaxDebugCalls == 4
\* A cooldown shorter than the current Unix time.
ShortCooldown == 2
\* A cooldown larger than every Unix time the clock reaches.
LongCooldown == 50

MaxClock == StartClock + MaxTicks

\* The events the cooldown behaviours use (two of config.ValidEvents).
CooldownEvents == {"stop", "subagent"}
\* Cooldown arguments: negative, zero (the default), short and long.
Cooldowns == {-1, 0, ShortCooldown, LongCooldown}

\* Callers of CheckCooldown (goroutines or whole processes) and Managers.
Procs == {"p1", "p2"}
Managers == {"m1", "m2"}

\* NewManager: the state path for a home directory ("" when HOME is empty).
NewManager(homeDir) == IF homeDir # "" THEN "home/.claude/ccbell.state" ELSE ""

(***************************************************************************)
(* State.LastTrigger: a map from event name to Unix seconds.               *)
(***************************************************************************)
EmptyMap == [x \in {} |-> 0]

\* state.LastTrigger[eventType]: a missing key reads as the zero value.
Lookup(m, e) == IF e \in DOMAIN m THEN m[e] ELSE 0

MapSet(m, e, v) == [x \in (DOMAIN m) \cup {e} |-> IF x = e THEN v ELSE m[x]]

(***************************************************************************)
(* Files.  kind: "absent", "doc" (a complete JSON document holding lt),    *)
(* "corrupt" (unparseable), "unreadable" (ReadFile fails with an error     *)
(* other than not-exist), "empty" and "partial" (a file being written).    *)
(***************************************************************************)
Absent == [kind |-> "absent", lt |-> EmptyMap]
Corrupt == [kind |-> "corrupt", lt |-> EmptyMap]
Unreadable == [kind |-> "unreadable", lt |-> EmptyMap]
EmptyFile == [kind |-> "empty", lt |-> EmptyMap]
Partial == [kind |-> "partial", lt |-> EmptyMap]
Doc(m) == [kind |-> "doc", lt |-> m]

VARIABLES
    clock,      \* time.Now().Unix()
    file,       \* the file at the state path
    temp,       \* temp[p]: the temp file of p's running save, or Absent
    filePath,   \* filePath[m]: Manager.filePath
    mgr,        \* mgr[p]: the Manager p calls
    mutex,      \* mutex[m]: "free" or the caller holding Manager.mu
    pc,         \* pc[p]: p's position in CheckCooldown / save / run
    ev,         \* ev[p]: eventType argument
    cd,         \* cd[p]: cooldownSecs argument
    st,         \* st[p]: the loaded State.LastTrigger
    now,        \* now[p]: currentTime
    res,        \* res[p]: the (inCooldown, err) CheckCooldown returned
    touched,    \* touched[p]: the call read or wrote the file system
    snap,       \* snap[p]: the state file as it was when p loaded it
    outcome,    \* outcome[p]: what run() did with the result
    okAt        \* okAt[e, c]: currentTime of the last (false, nil) return

cvars == <<clock, file, temp, filePath, mgr, mutex, pc, ev, cd, st, now,
           res, touched, snap, outcome, okAt>>

VARIABLES
    quietHours, \* Config.QuietHours: absent, or Start and End as written
    qhIntent,   \* the window quietHours was written from
    wall,       \* time.Now(): hour and minute of the wall clock
    qhResult    \* what IsInQuietHours returned

quietVars == <<quietHours, qhIntent, wall, qhResult>>

VARIABLES
    cfg,        \* the Config: ActiveProfile, Events, Profiles
    gecEvent,   \* the eventType GetEventConfig was last called with
    gecResult,  \* what that call returned
    gecPrevEvent,   \* the eventType of the call before it ("" when none)
    gecPrevResult   \* what the call before it returned

configVars == <<cfg, gecEvent, gecResult, gecPrevEvent, gecPrevResult>>

VARIABLES
    HOME,       \* os.Getenv("HOME"), the homeDir of run()
    configFiles,    \* configFiles[path]: the file at a config path
    loadResult  \* what Load returned

loadVars == <<HOME, configFiles, loadResult>>

VARIABLES
    argv,       \* os.Args[1:]
    runEvent,   \* eventType of run(), "" before the arguments are read
    runPc,      \* run()'s position, "exited" after os.Exit
    exitCode,   \* the process exit code, -1 while it runs
    ended,      \* how the run ended: "none", "info", "suppressed", "playing",
                \* "error", "panic"
    why,        \* the reason of a suppression, the error run() returned
    stages,     \* the stages of the pipeline the run has reached
    stderr,     \* what was written to standard error
    logged,     \* the messages appended to the log file
    launched,   \* the subprocesses started, in order
    soundFiles, \* soundFiles[path]: "file" or "dangling" (a broken symlink)
    onPath,     \* the audio players exec.LookPath finds
    platform,   \* Player.platform, "" before NewPlayer
    soundPath,  \* the resolved sound path
    stdin,      \* the inherited standard input: "open" or "eof"
    drain,      \* the goroutine that drains stdin: "none", "reading", "done"
    children,   \* the indices in launched of the subprocesses still running
    installing  \* the index of the player EnsureAudioPlayer is installing, or 0

envVars == <<stdin, drain, children, installing>>

runVars == <<argv, runEvent, runPc, exitCode, ended, why, stages, stderr,
             logged, launched, soundFiles, onPath, platform, soundPath, envVars>>

VARIABLES
    resolveIn,  \* the Player and the arguments of a call of ResolveSoundPath
    resolveOut, \* what ResolveSoundPath and GetFallbackPath returned
    playIn,     \* the Player and the arguments of a call of Play
    playOut,    \* what Play returned, and the subprocess it started
    logger,     \* the Logger: enabled and filePath
    logFiles,   \* logFiles[name]: the log file and its rotated files
    logCalls,   \* the number of Debug calls made
    logFaults   \* the file operations that failed in the last Debug call

logVars == <<logger, logFiles, logCalls, logFaults>>
unitVars == <<resolveIn, resolveOut, playIn, playOut, logVars>>

\* What the steps of one part leave alone.
outsideCooldown == <<quietVars, configVars, loadVars, runVars, unitVars>>
outsideQuiet == <<cvars, configVars, loadVars, runVars, unitVars>>
outsideConfig == <<cvars, quietVars, loadVars, runVars, unitVars>>

NoRes == [inCooldown |-> FALSE, err |-> FALSE, set |-> FALSE]
Result(inCd, e) == [inCooldown |-> inCd, err |-> e, set |-> TRUE]
NoOutcome == [next |-> "none", log |-> "none"]

\* State files earlier runs can have left: none, complete documents, and
\* files damaged or made unreadable from outside.
InitFiles ==
    {Absent, Corrupt, Unreadable, Doc([x \in CooldownEvents |-> StartClock - 1])}

InitCooldown ==
    /\ clock = StartClock
    /\ file \in InitFiles
    /\ temp = [p \in Procs |-> Absent]
    /\ \E home \in {"", "home"} : filePath = [m \in Managers |-> NewManager(home)]
    /\ mgr \in {[p \in Procs |-> "m1"], [p \in Procs |-> IF p = "p1" THEN "m1" ELSE "m2"]}
    /\ mutex = [m \in Managers |-> "free"]
    /\ pc = [p \in Procs |-> "idle"]
    /\ ev = [p \in Procs |-> "stop"]
    /\ cd = [p \in Procs |-> 0]
    /\ st = [p \in Procs |-> EmptyMap]
    /\ now = [p \in Procs |-> 0]
    /\ res = [p \in Procs |-> NoRes]
    /\ touched = [p \in Procs |-> FALSE]
    /\ snap = [p \in Procs |-> Absent]
    /\ outcome = [p \in Procs |-> NoOutcome]
    /\ okAt = [k \in CooldownEvents \X Cooldowns |-> 0]

(***************************************************************************)
(* Manager.load (state.go:76-96).                                          *)
(***************************************************************************)
\* load's error: ReadFile failed and the error is not "not exist".
LoadErr(f) == f.kind = "unreadable"

\* A load that ignores the file and starts from an empty State.
LoadStateEmpty(f) == EmptyMap

\* The LastTrigger map load returns; CheckCooldown replaces a failed load by
\* an empty State (state.go:53-56).
LoadState(f) ==
    IF LoadErr(f) THEN EmptyMap
    ELSE IF f.kind = "doc" THEN f.lt ELSE EmptyMap

(***************************************************************************)
(* Manager.CheckCooldown (state.go:44-73)                                  *)
(***************************************************************************)
\* A guard that lets a zero cooldown through to the state file.
NoCooldownNegativeOnly(path, c) == path = "" \/ c < 0

\* state.go:45: no cooldown configured.
NoCooldown(path, c) == path = "" \/ c <= 0

\* A window one second too short.
InCooldownOffByOne(m, e, c, t) == t - Lookup(m, e) < c - 1

\* state.go:60-62: elapsed < cooldownSecs.
InCooldown(m, e, c, t) == t - Lookup(m, e) < c

\* A return of CheckCooldown: the result, and the deferred Unlock.
Return(p, inCd, e) ==
    /\ pc' = [pc EXCEPT ![p] = "ret"]
    /\ res' = [res EXCEPT ![p] = Result(inCd, e)]
    /\ mutex' = [m \in Managers |-> IF mutex[m] = p THEN "free" ELSE mutex[m]]

Call(p, e, c) ==
    /\ pc[p] = "idle"
    /\ ev' = [ev EXCEPT ![p] = e]
    /\ cd' = [cd EXCEPT ![p] = c]
    /\ touched' = [touched EXCEPT ![p] = FALSE]
    /\ outcome' = [outcome EXCEPT ![p] = NoOutcome]
    /\ IF NoCooldown(filePath[mgr[p]], c)
         THEN Return(p, FALSE, FALSE)
         ELSE /\ pc' = [pc EXCEPT ![p] = "lock"]
              /\ res' = [res EXCEPT ![p] = NoRes]
              /\ UNCHANGED mutex
    /\ UNCHANGED <<clock, file, temp, filePath, mgr, st, now, snap, okAt>>
    /\ UNCHANGED outsideCooldown

\* A Lock that does not wait for the holder of Manager.mu.
LockNoWait(p) ==
    /\ pc[p] = "lock"
    /\ mutex' = [mutex EXCEPT ![mgr[p]] = p]
    /\ pc' = [pc EXCEPT ![p] = "load"]
    /\ UNCHANGED <<clock, file, temp, filePath, mgr, ev, cd, st, now, res,
                   touched, snap, outcome, okAt>>
    /\ UNCHANGED outsideCooldown

\* state.go:49: m.mu.Lock().
Lock(p) ==
    /\ pc[p] = "lock"
    /\ mutex[mgr[p]] = "free"
    /\ mutex' = [mutex EXCEPT ![mgr[p]] = p]
    /\ pc' = [pc EXCEPT ![p] = "load"]
    /\ UNCHANGED <<clock, file, temp, filePath, mgr, ev, cd, st, now, res,
                   touched, snap, outcome, okAt>>
    /\ UNCHANGED outsideCooldown

\* state.go:52-56: load, an empty State when load fails.
Load(p) ==
    /\ pc[p] = "load"
    /\ st' = [st EXCEPT ![p] = LoadState(file)]
    /\ snap' = [snap EXCEPT ![p] = file]
    /\ touched' = [touched EXCEPT ![p] = TRUE]
    /\ pc' = [pc EXCEPT ![p] = "check"]
    /\ UNCHANGED <<clock, file, temp, filePath, mgr, mutex, ev, cd, now, res,
                   outcome, okAt>>
    /\ UNCHANGED outsideCooldown

\* An update that starts from a fresh map and drops the other events.
UpdateFresh(m, e, t) == [x \in {e} |-> t]

\* state.go:67: state.LastTrigger[eventType] = currentTime.
Update(m, e, t) == MapSet(m, e, t)

\* state.go:58-67: the decision.
Check(p) ==
    /\ pc[p] = "check"
    /\ now' = [now EXCEPT ![p] = clock]
    /\ IF InCooldown(st[p], ev[p], cd[p], clock)
         THEN /\ Return(p, TRUE, FALSE)
              /\ UNCHANGED st
         ELSE /\ st' = [st EXCEPT ![p] = Update(st[p], ev[p], clock)]
              /\ pc' = [pc EXCEPT ![p] = "mkdir"]
              /\ UNCHANGED <<res, mutex>>
    /\ UNCHANGED <<clock, file, temp, filePath, mgr, ev, cd, touched, snap,
                   outcome, okAt>>
    /\ UNCHANGED outsideCooldown

(***************************************************************************)
(* Manager.save (state.go:99-151), one step per file-system call.  Each    *)
(* call can fail; a failed save makes CheckCooldown return (false, err).   *)
(***************************************************************************)
\* A failed save reported as "in cooldown".
SaveFailThrottled(p) == Return(p, TRUE, TRUE)

\* state.go:68-70: return false, fmt.Errorf("failed to save state: %w", err).
SaveFail(p) == Return(p, FALSE, TRUE)

\* state.go:101-104: os.MkdirAll(dir, 0750).
SaveMkdirAll(p) ==
    /\ pc[p] = "mkdir"
    /\ \E ok \in BOOLEAN :
         IF ok THEN /\ pc' = [pc EXCEPT ![p] = "createtemp"]
                    /\ UNCHANGED <<res, mutex>>
               ELSE SaveFail(p)
    /\ UNCHANGED <<clock, file, temp, filePath, mgr, ev, cd, st, now,
                   touched, snap, outcome, okAt>>
    /\ UNCHANGED outsideCooldown

\* state.go:114-118: os.CreateTemp(dir, "ccbell.state.*.tmp").
SaveCreateTemp(p) ==
    /\ pc[p] = "createtemp"
    /\ \E ok \in BOOLEAN :
         IF ok THEN /\ temp' = [temp EXCEPT ![p] = EmptyFile]
                    /\ pc' = [pc EXCEPT ![p] = "chmod"]
                    /\ UNCHANGED <<res, mutex>>
               ELSE /\ SaveFail(p)
                    /\ UNCHANGED temp
    /\ UNCHANGED <<clock, file, filePath, mgr, ev, cd, st, now, touched,
                   snap, outcome, okAt>>
    /\ UNCHANGED outsideCooldown

\* state.go:128-131: tempFile.Chmod(FileMode).
SaveChmod(p) ==
    /\ pc[p] = "chmod"
    /\ \E ok \in BOOLEAN : pc' = [pc EXCEPT ![p] = IF ok THEN "write" ELSE "cleanup"]
    /\ UNCHANGED <<clock, file, temp, filePath, mgr, mutex, ev, cd, st, now,
                   res, touched, snap, outcome, okAt>>
    /\ UNCHANGED outsideCooldown

\* A Write that goes to the state path itself instead of the temp file.
SaveWriteInPlace(p) ==
    /\ pc[p] = "write"
    /\ \/ /\ file' = Doc(st[p])
          /\ pc' = [pc EXCEPT ![p] = "close"]
       \/ /\ file' = Partial
          /\ pc' = [pc EXCEPT ![p] = "cleanup"]
    /\ UNCHANGED <<clock, temp, filePath, mgr, mutex, ev, cd, st, now, res,
                   touched, snap, outcome, okAt>>
    /\ UNCHANGED outsideCooldown

\* state.go:107-111, 134-137: tempFile.Write(data), data the marshalled State;
\* a failed Write may have written nothing or a part.
SaveWrite(p) ==
    /\ pc[p] = "write"
    /\ \/ /\ temp' = [temp EXCEPT ![p] = Doc(st[p])]
          /\ pc' = [pc EXCEPT ![p] = "close"]
       \/ /\ \E t \in {EmptyFile, Partial} : temp' = [temp EXCEPT ![p] = t]
          /\ pc' = [pc EXCEPT ![p] = "cleanup"]
    /\ UNCHANGED <<clock, file, filePath, mgr, mutex, ev, cd, st, now, res,
                   touched, snap, outcome, okAt>>
    /\ UNCHANGED outsideCooldown

\* state.go:140-142: tempFile.Close().
SaveClose(p) ==
    /\ pc[p] = "close"
    /\ \E ok \in BOOLEAN : pc' = [pc EXCEPT ![p] = IF ok THEN "rename" ELSE "cleanup"]
    /\ UNCHANGED <<clock, file, temp, filePath, mgr, mutex, ev, cd, st, now,
                   res, touched, snap, outcome, okAt>>
    /\ UNCHANGED outsideCooldown

\* state.go:145-150 and 72: os.Rename(tempPath, m.filePath); on success
\* tempPath = "", save returns nil and CheckCooldown returns (false, nil).
SaveRename(p) ==
    /\ pc[p] = "rename"
    /\ \/ /\ file' = temp[p]
          /\ temp' = [temp EXCEPT ![p] = Absent]
          /\ okAt' = [okAt EXCEPT ![<<ev[p], cd[p]>>] = now[p]]
          /\ Return(p, FALSE, FALSE)
       \/ /\ pc' = [pc EXCEPT ![p] = "cleanup"]
          /\ UNCHANGED <<file, temp, okAt, res, mutex>>
    /\ UNCHANGED <<clock, filePath, mgr, ev, cd, st, now, touched, snap, outcome>>
    /\ UNCHANGED outsideCooldown

\* state.go:121-125: the deferred os.Remove(tempPath) of a failed save.
SaveCleanup(p) ==
    /\ pc[p] = "cleanup"
    /\ temp' = [temp EXCEPT ![p] = Absent]
    /\ SaveFail(p)
    /\ UNCHANGED <<clock, file, filePath, mgr, ev, cd, st, now, touched,
                   snap, outcome, okAt>>
    /\ UNCHANGED outsideCooldown

(***************************************************************************)
(* run(), part_002:1935-1945: what the entry point does with the result.   *)
(***************************************************************************)
RunDecision(r) ==
    IF r.err THEN [next |-> "resolve", log |-> "cooldown check error"]
    ELSE IF r.inCooldown THEN [next |-> "suppressed", log |-> "in cooldown"]
    ELSE [next |-> "resolve", log |-> "all checks passed"]

RunAfterCooldown(p) ==
    /\ pc[p] = "ret"
    /\ outcome' = [outcome EXCEPT ![p] = RunDecision(res[p])]
    /\ pc' = [pc EXCEPT ![p] = "idle"]
    /\ st' = [st EXCEPT ![p] = EmptyMap]
    /\ snap' = [snap EXCEPT ![p] = Absent]
    /\ now' = [now EXCEPT ![p] = 0]
    /\ ev' = [ev EXCEPT ![p] = "stop"]
    /\ cd' = [cd EXCEPT ![p] = 0]
    /\ touched' = [touched EXCEPT ![p] = FALSE]
    /\ UNCHANGED <<clock, file, temp, filePath, mgr, mutex, res, okAt>>
    /\ UNCHANGED outsideCooldown

(***************************************************************************)
(* Environment: the clock advances; the process of a Manager stops at any  *)
(* step, which ends all its callers; the temp file it leaves behind has a  *)
(* name no later CreateTemp reuses and is not tracked further.             *)
(***************************************************************************)
Tick ==
    /\ clock < MaxClock
    /\ clock' = clock + 1
    /\ UNCHANGED <<file, temp, filePath, mgr, mutex, pc, ev, cd, st, now,
                   res, touched, snap, outcome, okAt>>
    /\ UNCHANGED outsideCooldown

Crash(m) ==
    LET dead == {p \in Procs : mgr[p] = m} IN
    /\ \E p \in dead : pc[p] \notin {"idle", "ret"}
    /\ temp' = [p \in Procs |-> IF p \in dead THEN Absent ELSE temp[p]]
    /\ mutex' = [mutex EXCEPT ![m] = "free"]
    /\ pc' = [p \in Procs |-> IF p \in dead THEN "idle" ELSE pc[p]]
    /\ st' = [p \in Procs |-> IF p \in dead THEN EmptyMap ELSE st[p]]
    /\ snap' = [p \in Procs |-> IF p \in dead THEN Absent ELSE snap[p]]
    /\ now' = [p \in Procs |-> IF p \in dead THEN 0 ELSE now[p]]
    /\ res' = [p \in Procs |-> IF p \in dead THEN NoRes ELSE res[p]]
    /\ touched' = [p \in Procs |-> IF p \in dead THEN FALSE ELSE touched[p]]
    /\ outcome' = [p \in Procs |-> IF p \in dead THEN NoOutcome ELSE outcome[p]]
    /\ ev' = [p \in Procs |-> IF p \in dead THEN "stop" ELSE ev[p]]
    /\ cd' = [p \in Procs |-> IF p \in dead THEN 0 ELSE cd[p]]
    /\ UNCHANGED <<clock, file, filePath, mgr, okAt>>
    /\ UNCHANGED outsideCooldown

(***************************************************************************)
(* Quiet hours (part_004).  A string is a sequence of one-character        *)
(* strings.                                                                *)
(***************************************************************************)
Digits == <<"0", "1", "2", "3", "4", "5", "6", "7", "8", "9">>
IsDigit(ch) == \E i \in 1..Len(Digits) : Digits[i] = ch
DigitVal(ch) == (CHOOSE i \in 1..Len(Digits) : Digits[i] = ch) - 1
DigitChar(d) == Digits[d + 1]

\* strings.Split(s, sep) for a one-character separator.
RECURSIVE Split(_, _)
Split(s, sep) ==
    IF \A i \in 1..Len(s) : s[i] # sep
      THEN <<s>>
      ELSE LET k == CHOOSE i \in 1..Len(s) :
                      s[i] = sep /\ \A j \in 1..(i - 1) : s[j] # sep
           IN  <<SubSeq(s, 1, k - 1)>> \o Split(SubSeq(s, k + 1, Len(s)), sep)

RECURSIVE DigitsValue(_)
DigitsValue(s) ==
    IF s = <<>> THEN 0
    ELSE DigitsValue(SubSeq(s, 1, Len(s) - 1)) * 10 + DigitVal(s[Len(s)])

\* strconv.Atoi: an optional sign, then one or more decimal digits.
Atoi(s) ==
    LET signed == s # <<>> /\ s[1] \in {"+", "-"}
        body == IF signed THEN Tail(s) ELSE s
    IN  IF body = <<>> \/ \E i \in 1..Len(body) : ~IsDigit(body[i])
          THEN [err |-> TRUE, val |-> 0]
          ELSE [err |-> FALSE,
                val |-> IF signed /\ s[1] = "-" THEN 0 - DigitsValue(body)
                        ELSE DigitsValue(body)]

ParseError == [err |-> TRUE, val |-> 0]

\* parseTimeToMinutes (part_004:41-62): "HH:MM" to minutes since midnight.
parseTimeToMinutes(timeStr) ==
    LET parts == Split(timeStr, ":") IN
    IF Len(parts) # 2 THEN ParseError
    ELSE LET hours == Atoi(parts[1])
             minutes == Atoi(parts[2])
         IN  IF hours.err THEN ParseError
             ELSE IF minutes.err THEN ParseError
             ELSE IF hours.val < 0 \/ hours.val > 23 \/ minutes.val < 0 \/ minutes.val > 59
               THEN ParseError
             ELSE [err |-> FALSE, val |-> hours.val * 60 + minutes.val]

\* Config.QuietHours == nil.  A window is <<Start, End>> wrapped in a set.
NoQuietHours == {}
QuietHours(start, end) == {[Start |-> start, End |-> end]}

\* IsInQuietHours whose overnight window needs both conditions.
IsInQuietHoursOvernightAnd(qh, currentMins) ==
    IF qh = NoQuietHours THEN FALSE
    ELSE LET w == CHOOSE x \in qh : TRUE IN
         IF w.Start = <<>> \/ w.End = <<>> THEN FALSE
         ELSE LET startMins == parseTimeToMinutes(w.Start)
                  endMins == parseTimeToMinutes(w.End)
              IN  IF startMins.err \/ endMins.err THEN FALSE
                  ELSE IF startMins.val = endMins.val THEN FALSE
                  ELSE IF startMins.val > endMins.val
                    THEN currentMins >= startMins.val /\ currentMins < endMins.val
                  ELSE currentMins >= startMins.val /\ currentMins < endMins.val

\* Config.IsInQuietHours (part_004:11-38), currentMins read from time.Now().
IsInQuietHours(qh, currentMins) ==
    IF qh = NoQuietHours THEN FALSE
    ELSE LET w == CHOOSE x \in qh : TRUE IN
         IF w.Start = <<>> \/ w.End = <<>> THEN FALSE
         ELSE LET startMins == parseTimeToMinutes(w.Start)
                  endMins == parseTimeToMinutes(w.End)
              IN  IF startMins.err \/ endMins.err THEN FALSE
                  ELSE IF startMins.val = endMins.val THEN FALSE
                  ELSE IF startMins.val > endMins.val
                    THEN currentMins >= startMins.val \/ currentMins < endMins.val
                  ELSE currentMins >= startMins.val /\ currentMins < endMins.val

\* part_004:22-23: currentMins := now.Hour()*60 + now.Minute().
CurrentMins(w) == w.hour * 60 + w.minute

\* padZero and formatTime of the package's tests (part_003:143-156), the
\* latter with the minute it ignores: how a bound is written as "HH:MM".
padZero(n) ==
    IF n < 0 \/ n > 99 THEN <<"0", "0">>
    ELSE IF n < 10 THEN <<"0", DigitChar(n)>>
    ELSE <<DigitChar(n \div 10), DigitChar(n % 10)>>

formatTime(hour, minute) == padZero(hour) \o <<":">> \o padZero(minute)

\* The bounds the windows are drawn from: times of day, as hour and minute,
\* and strings that are no time of day.
SampleHours == {0, 7, 22, 23}
SampleMinutes == {0, 59}
SampleTimes == [hour : SampleHours, minute : SampleMinutes]
BadTimes ==
    { <<>>,                                   \* ""
      <<"2", "4", ":", "0", "0">>,            \* "24:00"
      <<"1", "2", ":", "6", "0">>,            \* "12:60"
      <<"1", "2", "0", "0">>,                 \* "1200"
      <<"1", "2", ":", "0", "0", ":", "0", "0">>,  \* "12:00:00"
      <<"a", "b", ":", "0", "0">>,            \* "ab:00"
      <<"1", "2", ":">> }                     \* "12:"

\* A bound as intended: a time of day, or text that is none.
Bounds == [ok : {TRUE}, at : SampleTimes, text : {<<>>}]
          \cup [ok : {FALSE}, at : {[hour |-> 0, minute |-> 0]}, text : BadTimes]
BoundText(b) == IF b.ok THEN formatTime(b.at.hour, b.at.minute) ELSE b.text

\* The intended windows: none, or a start and an end bound.
NoWindow == [present |-> FALSE,
             start |-> [ok |-> FALSE, at |-> [hour |-> 0, minute |-> 0], text |-> <<>>],
             end |-> [ok |-> FALSE, at |-> [hour |-> 0, minute |-> 0], text |-> <<>>]]
Windows == {NoWindow} \cup [present : {TRUE}, start : Bounds, end : Bounds]
WindowConfig(w) ==
    IF w.present THEN QuietHours(BoundText(w.start), BoundText(w.end)) ELSE NoQuietHours

\* Wall-clock times: each sample time, the minute before and the minute after.
WallTimes ==
    {[hour |-> (m \div 60), minute |-> (m % 60)] :
        m \in UNION {{(CurrentMins(t) + 1440 - 1) % 1440,
                      CurrentMins(t),
                      (CurrentMins(t) + 1) % 1440} : t \in SampleTimes}}

InitQuiet ==
    /\ qhIntent \in Windows
    /\ quietHours = WindowConfig(qhIntent)
    /\ wall \in WallTimes
    /\ qhResult = "none"

QuietIdle ==
    /\ qhIntent = NoWindow
    /\ quietHours = NoQuietHours
    /\ wall = [hour |-> 0, minute |-> 0]
    /\ qhResult = "none"

\* A call of cfg.IsInQuietHours() (part_002:1929).
CheckQuietHours ==
    /\ qhResult = "none"
    /\ qhResult' = IF IsInQuietHours(quietHours, CurrentMins(wall)) THEN "quiet" ELSE "not quiet"
    /\ UNCHANGED <<quietHours, qhIntent, wall>>
    /\ UNCHANGED outsideQuiet

(***************************************************************************)
(* Event configuration (config.go).  A pointer is a set: {} is nil, {v}    *)
(* points to v.  A volume is in hundredths (0.5 is 50).  A sound           *)
(* specification "scheme:value" is <<scheme, value>>, "" is <<>>.          *)
(***************************************************************************)
Nil == {}
Ptr(v) == {v}
Deref(ptr) == CHOOSE v \in ptr : TRUE

\* config.go:181-186: the built-in defaults of GetEventConfig.
DefaultEvent(eventType) ==
    [Enabled |-> Ptr(TRUE), Sound |-> <<"bundled:", eventType>>,
     Volume |-> Ptr(50), Cooldown |-> Ptr(0)]

\* A merge that copies the sound even when it is not set.
mergeEventSoundAlways(dst, src) ==
    [Enabled |-> IF src.Enabled # Nil THEN src.Enabled ELSE dst.Enabled,
     Sound |-> src.Sound,
     Volume |-> IF src.Volume # Nil THEN src.Volume ELSE dst.Volume,
     Cooldown |-> IF src.Cooldown # Nil THEN src.Cooldown ELSE dst.Cooldown]

\* mergeEvent (config.go:207-220): the set values of src applied to dst.
mergeEvent(dst, src) ==
    [Enabled |-> IF src.Enabled # Nil THEN src.Enabled ELSE dst.Enabled,
     Sound |-> IF src.Sound # <<>> THEN src.Sound ELSE dst.Sound,
     Volume |-> IF src.Volume # Nil THEN src.Volume ELSE dst.Volume,
     Cooldown |-> IF src.Cooldown # Nil THEN src.Cooldown ELSE dst.Cooldown]

\* A result of GetEventConfig: the *Event, or a nil-pointer panic.
Returned(e) == [panic |-> FALSE, event |-> e]
Panicked == [panic |-> TRUE, event |-> DefaultEvent("")]

\* mergeEvent(result, src) for a *Event src: src.Enabled on a nil src panics.
MergeInto(result, srcPtr) ==
    IF result.panic \/ srcPtr = Nil THEN Panicked
    ELSE Returned(mergeEvent(result.event, Deref(srcPtr)))

\* Config.GetEventConfig (config.go:179-203).
GetEventConfig(c, eventType) ==
    LET defaults == Returned(DefaultEvent(eventType))
        base == IF eventType \in DOMAIN c.Events
                  THEN MergeInto(defaults, c.Events[eventType])
                  ELSE defaults
    IN  IF c.ActiveProfile # "" /\ c.ActiveProfile # "default"
          THEN IF c.ActiveProfile \in DOMAIN c.Profiles
                 THEN LET profile == c.Profiles[c.ActiveProfile] IN
                      IF base.panic \/ profile = Nil THEN Panicked
                      ELSE IF eventType \in DOMAIN Deref(profile).Events
                        THEN MergeInto(base, Deref(profile).Events[eventType])
                        ELSE base
                 ELSE base
          ELSE base

\* The per-event overrides the configurations are drawn from.
EventSamples ==
    [Enabled : {Nil, Ptr(TRUE), Ptr(FALSE)},
     Sound : {<<>>, <<"custom:", "/a.wav">>},
     Volume : {Nil, Ptr(0), Ptr(80)},
     Cooldown : {Nil, Ptr(0), Ptr(30)}]

FullEvent ==
    [Enabled |-> Ptr(FALSE), Sound |-> <<"bundled:", "stop">>,
     Volume |-> Ptr(100), Cooldown |-> Ptr(5)]

\* Event maps: empty, an entry for "stop", entries for both events.
EventMaps ==
    {EmptyMap}
    \cup {[x \in {"stop"} |-> Ptr(s)] : s \in EventSamples}
    \cup {[x \in {"stop", "subagent"} |-> Ptr(FullEvent)]}

\* Profile maps: none, "work" without and with an entry for "stop", and a
\* profile that is itself named "default".
ProfileMaps ==
    {EmptyMap, [x \in {"work"} |-> Ptr([Events |-> EmptyMap])]}
    \cup {[x \in {"work"} |-> Ptr([Events |-> [y \in {"stop"} |-> Ptr(s)]])] :
            s \in EventSamples}
    \cup {[x \in {"default"} |-> Ptr([Events |-> [y \in {"stop"} |-> Ptr(FullEvent)]])]}

ActiveProfiles == {"", "default", "work", "night"}

InitConfig ==
    /\ cfg \in [ActiveProfile : ActiveProfiles, Events : EventMaps, Profiles : ProfileMaps]
    /\ gecEvent = ""
    /\ gecResult = Returned(DefaultEvent(""))
    /\ gecPrevEvent = ""
    /\ gecPrevResult = Returned(DefaultEvent(""))

\* Config values as any Go code can build them: also with null entries.
NullEventMaps == {[x \in {"stop"} |-> Nil]}
NullProfileMaps ==
    {[x \in {"work"} |-> Nil],
     [x \in {"work"} |-> Ptr([Events |-> [y \in {"stop"} |-> Nil]])]}

InitAnyConfig ==
    /\ cfg \in [ActiveProfile : ActiveProfiles,
                Events : EventMaps \cup NullEventMaps,
                Profiles : ProfileMaps \cup NullProfileMaps]
    /\ gecEvent = ""
    /\ gecResult = Returned(DefaultEvent(""))
    /\ gecPrevEvent = ""
    /\ gecPrevResult = Returned(DefaultEvent(""))

ConfigIdle ==
    /\ cfg = [ActiveProfile |-> "", Events |-> EmptyMap, Profiles |-> EmptyMap]
    /\ gecEvent = ""
    /\ gecResult = Returned(DefaultEvent(""))
    /\ gecPrevEvent = ""
    /\ gecPrevResult = Returned(DefaultEvent(""))

\* The Config after GetEventConfig when the profile override is merged into
\* the base entry itself instead of into a fresh Event.
ConfigAfterMergeIntoBase(c, eventType) ==
    IF eventType \in DOMAIN c.Events /\ ~GetEventConfig(c, eventType).panic
      THEN [c EXCEPT !.Events[eventType] = Ptr(GetEventConfig(c, eventType).event)]
      ELSE c

\* The Config after GetEventConfig (config.go:179-203): result is a fresh
\* Event (line 181) and mergeEvent assigns to the fields of dst only, so no
\* field of c, of its maps or of their entries is written.
ConfigAfterGetEventConfig(c, eventType) == c

\* A call eventCfg := cfg.GetEventConfig(eventType) (part_002:1917).
CallGetEventConfig(e) ==
    /\ gecPrevEvent = ""
    /\ gecEvent' = e
    /\ gecResult' = GetEventConfig(cfg, e)
    /\ gecPrevEvent' = gecEvent
    /\ gecPrevResult' = gecResult
    /\ cfg' = ConfigAfterGetEventConfig(cfg, e)
    /\ UNCHANGED outsideConfig

(***************************************************************************)
(* The configuration file (config.go:65-175).  A JSON object is a record   *)
(* whose members are Nil (member absent) or Ptr(value); a map member maps  *)
(* each key to Nil (JSON null) or Ptr(object).                             *)
(***************************************************************************)
ValidEvents == {"stop", "permission_prompt", "idle_prompt", "subagent"}

\* Default() (config.go:65-77).
Default ==
    [Enabled |-> TRUE, Debug |-> FALSE, ActiveProfile |-> "default",
     QuietHours |-> NoQuietHours,
     Events |-> [e \in ValidEvents |->
                   Ptr([Enabled |-> Ptr(TRUE), Sound |-> <<"bundled:", e>>,
                        Volume |-> Ptr(IF e = "permission_prompt" THEN 70 ELSE 50),
                        Cooldown |-> Ptr(0)])],
     Profiles |-> EmptyMap]

\* A file that is no JSON document of the Config's shape: json.Unmarshal fails.
Malformed == [kind |-> "malformed"]

\* encoding/json on an Event (config.go:33-38): a nil pointer and, by
\* omitempty, an empty sound are left out.
MarshalEvent(e) ==
    [Enabled |-> e.Enabled,
     Sound |-> IF e.Sound = <<>> THEN Nil ELSE Ptr(e.Sound),
     Volume |-> e.Volume, Cooldown |-> e.Cooldown]

\* An Event decoded into a fresh struct: an absent member leaves the zero
\* value, which for Sound (a string, not a pointer) is "".
UnmarshalEvent(j) ==
    [Enabled |-> j.Enabled,
     Sound |-> IF j.Sound = Nil THEN <<>> ELSE Deref(j.Sound),
     Volume |-> j.Volume, Cooldown |-> j.Cooldown]

MarshalEvents(m) ==
    IF DOMAIN m = {} THEN Nil
    ELSE Ptr([k \in DOMAIN m |-> IF m[k] = Nil THEN Nil ELSE Ptr(MarshalEvent(Deref(m[k])))])

\* A JSON object decoded into a map: the map keeps its other keys, and each
\* key of the object gets a fresh value (nil for null).
UnmarshalEvents(j, m) ==
    IF j = Nil THEN m
    ELSE LET o == Deref(j) IN
         [k \in DOMAIN m \cup DOMAIN o |->
            IF k \in DOMAIN o
              THEN IF o[k] = Nil THEN Nil ELSE Ptr(UnmarshalEvent(Deref(o[k])))
              ELSE m[k]]

MarshalProfiles(m) ==
    IF DOMAIN m = {} THEN Nil
    ELSE Ptr([k \in DOMAIN m |->
                IF m[k] = Nil THEN Nil
                ELSE Ptr([Events |-> MarshalEvents(Deref(m[k]).Events)])])

UnmarshalProfiles(j, m) ==
    IF j = Nil THEN m
    ELSE LET o == Deref(j) IN
         [k \in DOMAIN m \cup DOMAIN o |->
            IF k \in DOMAIN o
              THEN IF o[k] = Nil THEN Nil
                   ELSE Ptr([Events |-> UnmarshalEvents(Deref(o[k]).Events, EmptyMap)])
              ELSE m[k]]

\* json.MarshalIndent(Default(), ...) of EnsureConfig (config.go:115) by the
\* tags of Config (config.go:14-21).
Marshal(c) ==
    [kind |-> "object",
     Enabled |-> Ptr(c.Enabled), Debug |-> Ptr(c.Debug),
     ActiveProfile |-> Ptr(c.ActiveProfile),
     QuietHours |-> c.QuietHours,
     Events |-> MarshalEvents(c.Events),
     Profiles |-> MarshalProfiles(c.Profiles)]

\* json.Unmarshal(data, cfg) of Load (config.go:89) onto the Config c.
Unmarshal(j, c) ==
    [Enabled |-> IF j.Enabled = Nil THEN c.Enabled ELSE Deref(j.Enabled),
     Debug |-> IF j.Debug = Nil THEN c.Debug ELSE Deref(j.Debug),
     ActiveProfile |-> IF j.ActiveProfile = Nil THEN c.ActiveProfile
                       ELSE Deref(j.ActiveProfile),
     QuietHours |-> IF j.QuietHours = Nil THEN c.QuietHours ELSE j.QuietHours,
     Events |-> UnmarshalEvents(j.Events, c.Events),
     Profiles |-> UnmarshalProfiles(j.Profiles, c.Profiles)]

\* timeFormatRegex (config.go:54): ^([01][0-9]|2[0-3]):[0-5][0-9]$.
timeFormatRegex(s) ==
    /\ Len(s) = 5
    /\ \/ s[1] \in {"0", "1"} /\ IsDigit(s[2])
       \/ s[1] = "2" /\ s[2] \in {"0", "1", "2", "3"}
    /\ s[3] = ":"
    /\ s[4] \in {"0", "1", "2", "3", "4", "5"}
    /\ IsDigit(s[5])

\* One pass of Validate's loop body over an entry (config.go:148-156 and
\* 162-170): "err" and "panic" end Validate, "pass" goes to the next entry.
\* event.Volume on a nil *Event is a nil-pointer dereference.
ValidateEntry(name, event) ==
    IF name \notin ValidEvents THEN "err"
    ELSE IF event = Nil THEN "panic"
    ELSE IF Deref(event).Volume # Nil
            /\ (Deref(Deref(event).Volume) < 0 \/ Deref(Deref(event).Volume) > 100)
      THEN "err"
    ELSE IF Deref(event).Cooldown # Nil /\ Deref(Deref(event).Cooldown) < 0 THEN "err"
    ELSE "pass"

\* The ways a range over an event map can end Validate: Go ranges over a map
\* in no fixed order, so any entry that ends it can be the first one met.
ValidateEvents(m) == {ValidateEntry(k, m[k]) : k \in DOMAIN m} \ {"pass"}

\* The same for the range over the profiles (config.go:160-172);
\* profile.Events on a nil *Profile is a nil-pointer dereference.
ValidateProfiles(m) ==
    UNION {IF m[k] = Nil THEN {"panic"} ELSE ValidateEvents(Deref(m[k]).Events) :
             k \in DOMAIN m}

\* Config.Validate (config.go:128-175): the set of its possible outcomes,
\* "ok" (nil), "err" (an error) and "panic".
Validate(c) ==
    IF c.QuietHours # NoQuietHours
       /\ LET q == Deref(c.QuietHours) IN
          \/ q.Start # <<>> /\ ~timeFormatRegex(q.Start)
          \/ q.End # <<>> /\ ~timeFormatRegex(q.End)
      THEN {"err"}
    ELSE IF c.ActiveProfile # "" /\ c.ActiveProfile # "default"
            /\ c.ActiveProfile \notin DOMAIN c.Profiles
      THEN {"err"}
    ELSE IF ValidateEvents(c.Events) # {} THEN ValidateEvents(c.Events)
    ELSE IF ValidateProfiles(c.Profiles) # {} THEN ValidateProfiles(c.Profiles)
    ELSE {"ok"}

\* Files at a config path.
NoFile == [kind |-> "absent"]
UnreadableFile == [kind |-> "unreadable"]
FileOf(j) == [kind |-> "file", data |-> j]

\* filepath.Join(homeDir, ".claude", "ccbell.config.json") (config.go:87, 106).
ConfigFilePath(homeDir) ==
    IF homeDir = "" THEN ".claude/ccbell.config.json"
    ELSE "home/.claude/ccbell.config.json"
ConfigPaths == {ConfigFilePath(""), ConfigFilePath("home")}

\* What Load returns: (cfg, configPath, err) with status "ok" (err is nil) or
\* "err" (cfg is nil), or a panic of Validate that leaves Load.
Loaded(status, c, path) ==
    [status |-> status, cfg |-> IF status = "ok" THEN Ptr(c) ELSE Nil,
     configPath |-> path]
NotLoaded == [status |-> "none", cfg |-> Nil, configPath |-> ""]

\* config.Load (config.go:81-102): the set of its possible results on the
\* files fs.
ConfigLoad(homeDir, fs) ==
    LET f == fs[ConfigFilePath(homeDir)]
        read == homeDir # "" /\ f.kind = "file"
    IN  IF read /\ f.data = Malformed THEN {Loaded("err", Default, "")}
        ELSE LET c == IF read THEN Unmarshal(f.data, Default) ELSE Default
                 path == IF read THEN ConfigFilePath(homeDir) ELSE ""
             IN  {Loaded(v, c, path) : v \in Validate(c)}

\* EnsureConfig (config.go:105-125): the possible file systems after it.  It
\* leaves an existing file alone; otherwise MkdirAll can fail, and WriteFile
\* can write the whole document or fail after creating the file.
EnsureConfig(homeDir, fs) ==
    LET path == ConfigFilePath(homeDir) IN
    IF fs[path].kind # "absent" THEN {[err |-> FALSE, fs |-> fs]}
    ELSE {[err |-> TRUE, fs |-> fs],
          [err |-> FALSE, fs |-> [fs EXCEPT ![path] = FileOf(Marshal(Default))]],
          [err |-> TRUE, fs |-> [fs EXCEPT ![path] = FileOf(Malformed)]]}

\* The per-event objects the configuration files are drawn from.
UnsetEvent == [Enabled |-> Nil, Sound |-> Nil, Volume |-> Nil, Cooldown |-> Nil]
ZeroEvent ==
    [Enabled |-> Ptr(FALSE), Sound |-> Ptr(<<>>), Volume |-> Ptr(0), Cooldown |-> Ptr(0)]
NonZeroEvent ==
    [Enabled |-> Ptr(TRUE), Sound |-> Ptr(<<"custom:", "/a.wav">>),
     Volume |-> Ptr(100), Cooldown |-> Ptr(30)]
EventObjects ==
    {UnsetEvent, ZeroEvent, NonZeroEvent,
     [UnsetEvent EXCEPT !.Volume = Ptr(101)],
     [UnsetEvent EXCEPT !.Volume = Ptr(-1)],
     [UnsetEvent EXCEPT !.Cooldown = Ptr(-1)]}

\* Event objects of a file: none, one entry for "stop" (an object or null),
\* an entry with a name outside the whitelist, and both kinds together.
EventsObjects ==
    {Nil}
    \cup {Ptr([k \in {"stop"} |-> Ptr(o)]) : o \in EventObjects}
    \cup {Ptr([k \in {"stop"} |-> Nil]),
          Ptr([k \in {"launch_missiles"} |-> Ptr(UnsetEvent)]),
          Ptr([k \in {"stop", "launch_missiles"} |-> Nil])}

\* Profile objects of a file: none, "work" (null, or with events), and a
\* profile "other" that is never active and holds a bad volume.
ProfilesObjects ==
    {Nil, Ptr([k \in {"work"} |-> Nil])}
    \cup {Ptr([k \in {"work"} |-> Ptr([Events |-> m])]) : m \in EventsObjects}
    \cup {Ptr([k \in {"other"} |->
                 Ptr([Events |-> Ptr([e \in {"stop"} |->
                                        Ptr([UnsetEvent EXCEPT !.Volume = Ptr(101)])])])])}

\* Quiet-hours objects: none, an overnight window, a bad start, an empty
\* start with a bad end, and two empty bounds.
QuietObjects ==
    {Nil,
     QuietHours(formatTime(22, 0), formatTime(7, 0)),
     QuietHours(<<"2", "4", ":", "0", "0">>, formatTime(7, 0)),
     QuietHours(<<>>, <<"7", ":", "0", "0">>),
     QuietHours(<<>>, <<>>)}

ConfigObjects ==
    [kind : {"object"}, Enabled : {Nil, Ptr(FALSE)}, Debug : {Nil},
     ActiveProfile : {Nil, Ptr(""), Ptr("work"), Ptr("night")},
     QuietHours : QuietObjects, Events : EventsObjects, Profiles : ProfilesObjects]

\* The config files a run can find.
ConfigFiles ==
    {NoFile, UnreadableFile, FileOf(Malformed)} \cup {FileOf(j) : j \in ConfigObjects}

(***************************************************************************)
(* Audio (internal/audio/player.go).                                       *)
(***************************************************************************)
\* The names of the model that consist of lowercase letters and underscores.
LowercaseNames == ValidEvents \cup {"launch_missiles"}

\* eventTypeRegex (config.go:57): ^[a-z_]+$ on an event name.
eventTypeRegex(s) == s \in LowercaseNames

\* An event-name check that tests the format only.
ValidateEventTypeFormatOnly(e) ==
    IF ~eventTypeRegex(e) THEN "invalid event type format" ELSE "nil"

\* ValidateEventType (config.go:223-239): "nil" or the error.
ValidateEventType(e) ==
    IF ~eventTypeRegex(e) THEN "invalid event type format"
    ELSE IF e \notin ValidEvents THEN "unknown event type"
    ELSE "nil"

linuxAudioPlayerNames == <<"mpv", "paplay", "aplay", "ffplay">>

(***************************************************************************)
(* Sound specifications and paths are strings, modelled as sequences of    *)
(* tokens: a token is one of the prefixes "bundled:", "custom:", "pack:",  *)
(* a single character ("/", ".", ":", "A"), or a word of lowercase letters *)
(* and underscores.  "" is <<>>.                                           *)
(***************************************************************************)
Prefixes == {"bundled:", "custom:", "pack:"}
LowercaseWords == LowercaseNames \cup {"a", "_", "sounds", "packs"}

\* strings.HasPrefix(s, p) for a prefix token p; strings.TrimPrefix is Tail.
HasPrefix(s, p) == Len(s) > 0 /\ s[1] = p

\* The letters of a prefix token, before its colon.
PrefixWord(p) ==
    IF p = "bundled:" THEN "bundled" ELSE IF p = "custom:" THEN "custom" ELSE "pack"

\* strings.Contains(s, ":"), and the index of the first token with a colon.
HasColon(s) == \E i \in 1..Len(s) : s[i] \in Prefixes \cup {":"}
FirstColon(s) ==
    CHOOSE i \in 1..Len(s) :
        /\ s[i] \in Prefixes \cup {":"}
        /\ \A j \in 1..(i - 1) : s[j] \notin Prefixes \cup {":"}

\* bundledSoundNameRegex (player.go:65): ^[a-z_]+$.
bundledSoundNameRegex(s) ==
    /\ Len(s) > 0
    /\ \A i \in 1..Len(s) : s[i] \in LowercaseWords

NoPath == <<>>
\* filepath.Join(pluginRoot, "sounds", name+".aiff"), below the plugin root.
BundledPath(name) == <<"sounds">> \o name
\* filepath.Join(homeDir, ".claude", "ccbell", "packs", packID, soundFile),
\* below the home directory: Join cleans an empty or "." last element away.
PackPath(packID, soundFile) ==
    IF soundFile \in {<<>>, <<".">>} THEN <<"packs">> \o packID
    ELSE <<"packs">> \o packID \o <<"/">> \o soundFile
Resolved(path) == [err |-> FALSE, path |-> path]
ResolveError == [err |-> TRUE, path |-> NoPath]

\* os.Lstat and os.Stat succeed: Stat follows a symbolic link, and fails on
\* a link whose target is missing.
Lstat(files, path) == path \in DOMAIN files
Stat(files, path) == path \in DOMAIN files /\ files[path] # "dangling"

\* filepath.IsAbs, strings.Contains(path, "..") and strings.Contains(path, "/").
IsAbs(path) == Len(path) > 0 /\ path[1] = "/"
ContainsDotDot(path) == \E i \in 1..(Len(path) - 1) : path[i] = "." /\ path[i + 1] = "."
ContainsSlash(path) == \E i \in 1..Len(path) : path[i] = "/"

\* resolveBundledSound (player.go:231-244).
resolveBundledSound(name, files) ==
    IF ~bundledSoundNameRegex(name) THEN ResolveError
    ELSE IF ~Lstat(files, BundledPath(name)) THEN ResolveError
    ELSE Resolved(BundledPath(name))

\* A resolveCustomSound without the traversal check.
resolveCustomSoundNoTraversalCheck(path, files) ==
    IF ~IsAbs(path) THEN ResolveError
    ELSE IF ~Stat(files, path) THEN ResolveError
    ELSE Resolved(path)

\* resolveCustomSound (player.go:210-227).
resolveCustomSound(path, files) ==
    IF ~IsAbs(path) THEN ResolveError
    ELSE IF ContainsDotDot(path) THEN ResolveError
    ELSE IF ~Stat(files, path) THEN ResolveError
    ELSE Resolved(path)

\* resolvePackSound (player.go:172-207) of a Player with home directory
\* homeDir: spec is pack_id:sound_file, split at its first colon.
resolvePackSound(spec, homeDir, files) ==
    IF ~HasColon(spec) THEN ResolveError
    ELSE LET i == FirstColon(spec)
             packID == SubSeq(spec, 1, i - 1)
                       \o (IF spec[i] = ":" THEN <<>> ELSE <<PrefixWord(spec[i])>>)
             soundFile == SubSeq(spec, i + 1, Len(spec))
         IN  IF ~(Len(packID) > 0
                  /\ \A k \in 1..Len(packID) :
                       packID[k] \in LowercaseWords \cup {"bundled", "custom", "pack"})
               THEN ResolveError
             ELSE IF ContainsDotDot(soundFile) \/ ContainsSlash(soundFile) THEN ResolveError
             ELSE IF homeDir = "" THEN ResolveError
             ELSE IF ~Stat(files, PackPath(packID, soundFile)) THEN ResolveError
             ELSE Resolved(PackPath(packID, soundFile))

\* ResolveSoundPath (player.go:150-169) of a Player with home directory
\* homeDir (NewPlayerWithHome, player.go:83-89).
ResolveSoundPathWithHome(homeDir, soundSpec, event, files) ==
    LET spec == IF soundSpec = <<>> THEN <<"bundled:", event>> ELSE soundSpec IN
    IF HasPrefix(spec, "bundled:") THEN resolveBundledSound(Tail(spec), files)
    ELSE IF HasPrefix(spec, "custom:") THEN resolveCustomSound(Tail(spec), files)
    ELSE IF HasPrefix(spec, "pack:") THEN resolvePackSound(Tail(spec), homeDir, files)
    ELSE resolveCustomSound(spec, files)

\* ResolveSoundPath (player.go:150-169) on the Player of run(), which
\* NewPlayer (player.go:75-80) builds without a home directory.
ResolveSoundPath(soundSpec, event, files) ==
    ResolveSoundPathWithHome("", soundSpec, event, files)

\* GetFallbackPath (player.go:248-262).
GetFallbackPath(event, files) ==
    IF Lstat(files, BundledPath(<<event>>)) THEN BundledPath(<<event>>)
    ELSE IF Lstat(files, BundledPath(<<"stop">>)) THEN BundledPath(<<"stop">>)
    ELSE NoPath

\* A player lookup that takes the last listed player on PATH.
LastOnPath(path) ==
    IF \E i \in 1..Len(linuxAudioPlayerNames) : linuxAudioPlayerNames[i] \in path
      THEN CHOOSE i \in 1..Len(linuxAudioPlayerNames) :
             /\ linuxAudioPlayerNames[i] \in path
             /\ \A j \in (i + 1)..Len(linuxAudioPlayerNames) :
                  linuxAudioPlayerNames[j] \notin path
      ELSE 0

\* The first player of the priority list that is on PATH, 0 when none is.
FirstOnPath(path) ==
    IF \E i \in 1..Len(linuxAudioPlayerNames) : linuxAudioPlayerNames[i] \in path
      THEN CHOOSE i \in 1..Len(linuxAudioPlayerNames) :
             /\ linuxAudioPlayerNames[i] \in path
             /\ \A j \in 1..(i - 1) : linuxAudioPlayerNames[j] \notin path
      ELSE 0

Started(cmds) == [err |-> FALSE, why |-> "", launched |-> cmds]
NotStarted(msg) == [err |-> TRUE, why |-> msg, launched |-> <<>>]

\* A Play that reports success on a platform it has no player for.
PlayOnAnyPlatform(path, plat, files, players) ==
    IF path = NoPath THEN {NotStarted("no sound path specified")}
    ELSE IF ~Stat(files, path) THEN {NotStarted("sound file not found")}
    ELSE IF plat = "macos" THEN {Started(<<"afplay">>), NotStarted("start failed")}
    ELSE IF plat = "linux"
      THEN IF FirstOnPath(players) = 0 THEN {NotStarted("no audio player found")}
           ELSE {Started(<<linuxAudioPlayerNames[FirstOnPath(players)]>>),
                 NotStarted("start failed")}
    ELSE {Started(<<>>)}

\* Play (player.go:104-142): the possible outcomes; cmd.Start() starts the
\* player without waiting for it, or fails.  On Linux the player is the
\* first of linuxAudioPlayerNames that exec.LookPath finds.
Play(path, plat, files, players) ==
    IF path = NoPath THEN {NotStarted("no sound path specified")}
    ELSE IF ~Stat(files, path) THEN {NotStarted("sound file not found")}
    ELSE IF plat = "macos" THEN {Started(<<"afplay">>), NotStarted("start failed")}
    ELSE IF plat = "linux"
      THEN IF FirstOnPath(players) = 0 THEN {NotStarted("no audio player found")}
           ELSE {Started(<<linuxAudioPlayerNames[FirstOnPath(players)]>>),
                 NotStarted("start failed")}
    ELSE {NotStarted("unsupported platform")}

\* The command installAudioPlayer runs (player.go:300-317).
InstallCommand == "sh -c install"

\* EnsureAudioPlayer (player.go:320-338) before it runs a command: a player
\* is on PATH ("found"); none is and findPackageManager finds a package
\* manager, pm, so that the first install command is run ("install"); or
\* every installAudioPlayer fails at once and so does the call ("fail").
EnsureAudioPlayer(players, pm) ==
    IF FirstOnPath(players) # 0 THEN "found"
    ELSE IF pm THEN "install"
    ELSE "fail"

(***************************************************************************)
(* main() and run() (part_002:1832-1981), one action per stage.            *)
(***************************************************************************)
\* A dereference that ignores the configured value.
derefAlwaysDefault(ptr, def) == def

\* derefBool and derefInt (part_002:1751-1770): the value, or the default
\* for nil.
deref(ptr, def) == IF ptr = Nil THEN def ELSE Deref(ptr)

\* An exit code that reports a caught panic like an error.
ExitCodePanicAsError(kind) == IF kind \in {"error", "panic"} THEN 1 ELSE 0

\* main (part_002:1832-1846): 2 for a recovered panic, 1 for an error of
\* run(), else 0.
ExitCode(kind) ==
    IF kind = "panic" THEN 2
    ELSE IF kind = "error" THEN 1
    ELSE 0

\* What main writes to standard error.
MainStderr(kind) ==
    IF kind = "panic" THEN {"PANIC"}
    ELSE IF kind = "error" THEN {"ERROR"}
    ELSE {}

\* run() returns (or panics) and main exits.
Exit(kind, reason) ==
    /\ runPc' = "exited"
    /\ ended' = kind
    /\ why' = reason
    /\ exitCode' = ExitCode(kind)
    /\ stderr' = stderr \cup MainStderr(kind)
    /\ stages' = IF kind = "playing" THEN Append(stages, "Playing")
                 ELSE IF kind = "suppressed" THEN Append(stages, "Suppressed")
                 ELSE stages

\* run() moves on to position next, reaching the stages in reached.
Goto(next, reached) ==
    /\ runPc' = next
    /\ stages' = stages \o reached
    /\ UNCHANGED <<exitCode, ended, why>>

\* Logger.Debug (part_005:44-66): the log after the messages msgs.
Debug(log, enabled, home, msgs) ==
    IF ~enabled \/ home = "" THEN log ELSE log \o msgs

\* part_002:1849-1875: the event name, --version and --help,
\* ValidateEventType, and the start of the goroutine that drains stdin.
RunArgs ==
    /\ runPc = "args"
    /\ LET e == IF Len(argv) > 0 THEN argv[1] ELSE "stop" IN
       IF e \in {"--version", "-v", "--help", "-h"}
         THEN Exit("info", e) /\ UNCHANGED <<runEvent, drain>>
         ELSE /\ runEvent' = e
              /\ IF ValidateEventType(e) # "nil"
                   THEN Exit("error", ValidateEventType(e)) /\ UNCHANGED drain
                   ELSE /\ Goto("ensure", <<>>)
                        /\ drain' = "reading"
                        /\ UNCHANGED stderr
    /\ UNCHANGED <<stdin, children, installing>>
    /\ UNCHANGED <<argv, logged, launched, soundFiles, onPath, platform, soundPath>>
    /\ UNCHANGED <<cvars, quietVars, configVars, loadVars>>
    /\ UNCHANGED unitVars

\* part_002:1884-1887: EnsureConfig, its error only warned about.
RunEnsureConfig ==
    /\ runPc = "ensure"
    /\ \E r \in EnsureConfig(HOME, configFiles) :
         /\ configFiles' = r.fs
         /\ stderr' = IF r.err THEN stderr \cup {"could not create config"} ELSE stderr
    /\ Goto("load", <<>>)
    /\ UNCHANGED <<HOME, loadResult>>
    /\ UNCHANGED <<argv, runEvent, logged, launched, soundFiles, onPath, platform,
                   soundPath>>
    /\ UNCHANGED <<cvars, quietVars, configVars>>
    /\ UNCHANGED <<envVars, unitVars>>

\* part_002:1890-1895: the Config run() goes on with, Default() when Load
\* returned an error.
ConfigForRun(l) == IF l.status = "ok" THEN Deref(l.cfg) ELSE Default

\* part_002:1889-1895: Load; a panic of Validate ends the run in main.
RunLoad ==
    /\ runPc = "load"
    /\ \E l \in ConfigLoad(HOME, configFiles) :
         /\ loadResult' = l
         /\ IF l.status = "panic"
              THEN Exit("panic", "nil pointer dereference") /\ UNCHANGED cfg
              ELSE /\ cfg' = ConfigForRun(l)
                   /\ Goto("logger", <<"ConfigLoaded">>)
                   /\ UNCHANGED stderr
    /\ UNCHANGED <<HOME, configFiles>>
    /\ UNCHANGED <<argv, runEvent, logged, launched, soundFiles, onPath, platform,
                   soundPath>>
    /\ UNCHANGED <<gecEvent, gecResult, gecPrevEvent, gecPrevResult>>
    /\ UNCHANGED <<cvars, quietVars>>
    /\ UNCHANGED <<envVars, unitVars>>

\* part_002:1897-1908: the logger, and the report of a config error.
RunLogger ==
    /\ runPc = "logger"
    /\ logged' = Debug(logged, cfg.Debug, HOME,
                       <<"triggered", "version">>
                       \o (IF loadResult.status = "err" THEN <<"config load error">> ELSE <<>>)
                       \o <<"plugin root">>)
    /\ stderr' = IF loadResult.status = "err"
                   THEN stderr \cup {"config error, using defaults"} ELSE stderr
    /\ Goto("enabled", <<>>)
    /\ UNCHANGED <<argv, runEvent, launched, soundFiles, onPath, platform, soundPath>>
    /\ UNCHANGED <<cvars, quietVars, configVars, loadVars>>
    /\ UNCHANGED <<envVars, unitVars>>

\* part_002:1910-1914: the global enable flag.
RunGlobalEnable ==
    /\ runPc = "enabled"
    /\ IF ~cfg.Enabled
         THEN /\ Exit("suppressed", "plugin disabled")
              /\ logged' = Debug(logged, cfg.Debug, HOME, <<"plugin disabled">>)
         ELSE Goto("event", <<>>) /\ UNCHANGED <<stderr, logged>>
    /\ UNCHANGED <<argv, runEvent, launched, soundFiles, onPath, platform, soundPath>>
    /\ UNCHANGED <<cvars, quietVars, configVars, loadVars>>
    /\ UNCHANGED <<envVars, unitVars>>

\* part_002:1917: eventCfg := cfg.GetEventConfig(runEvent).
RunGetEventConfig ==
    /\ runPc = "event"
    /\ gecEvent = ""
    /\ CallGetEventConfig(runEvent)

\* part_002:1918-1926: the event's enable flag.
RunEventEnabled ==
    /\ runPc = "event"
    /\ gecEvent # ""
    /\ IF gecResult.panic
         THEN Exit("panic", "nil pointer dereference") /\ UNCHANGED logged
         ELSE IF ~deref(gecResult.event.Enabled, TRUE)
           THEN /\ Exit("suppressed", "event disabled")
                /\ logged' = Debug(logged, cfg.Debug, HOME,
                                   <<"active profile", "event config", "event disabled">>)
           ELSE /\ Goto("quiet", <<"QuietCheck">>)
                /\ logged' = Debug(logged, cfg.Debug, HOME,
                                   <<"active profile", "event config">>)
                /\ UNCHANGED stderr
    /\ UNCHANGED <<argv, runEvent, launched, soundFiles, onPath, platform, soundPath>>
    /\ UNCHANGED <<cvars, quietVars, configVars, loadVars>>
    /\ UNCHANGED <<envVars, unitVars>>

\* part_002:1928-1933: quiet hours.
RunQuietHours ==
    /\ runPc = "quiet"
    /\ IF IsInQuietHours(cfg.QuietHours, CurrentMins(wall))
         THEN /\ Exit("suppressed", "quiet hours")
              /\ logged' = Debug(logged, cfg.Debug, HOME, <<"in quiet hours">>)
         ELSE Goto("cooldown", <<"CooldownCheck">>) /\ UNCHANGED <<stderr, logged>>
    /\ UNCHANGED <<argv, runEvent, launched, soundFiles, onPath, platform, soundPath>>
    /\ UNCHANGED <<cvars, quietVars, configVars, loadVars>>
    /\ UNCHANGED <<envVars, unitVars>>

\* The process of the run, as a caller of CheckCooldown.
RunProc == "p1"

\* part_002:1936-1937: NewManager(homeDir) and the call of CheckCooldown.
RunCheckCooldown ==
    /\ runPc = "cooldown"
    /\ res[RunProc] = NoRes
    /\ Call(RunProc, runEvent, deref(gecResult.event.Cooldown, 0))

\* part_002:1938-1945: after RunAfterCooldown has taken the result.
RunProceed ==
    /\ runPc = "cooldown"
    /\ outcome[RunProc] # NoOutcome
    /\ logged' = Debug(logged, cfg.Debug, HOME, <<outcome[RunProc].log>>)
    /\ IF outcome[RunProc].next = "suppressed"
         THEN Exit("suppressed", "cooldown")
         ELSE Goto("player", <<>>) /\ UNCHANGED stderr
    /\ UNCHANGED <<argv, runEvent, launched, soundFiles, onPath, platform, soundPath>>
    /\ UNCHANGED <<cvars, quietVars, configVars, loadVars>>
    /\ UNCHANGED <<envVars, unitVars>>

\* detectPlatform (player.go:92-101).
Platforms == {"macos", "linux", "unknown"}

\* part_002:1947-1959: NewPlayer, and EnsureAudioPlayer on Linux up to its
\* first install command, which cmd.Run() starts and waits for.
RunNewPlayer ==
    /\ runPc = "player"
    /\ \E plat \in Platforms, pm \in BOOLEAN :
         /\ platform' = plat
         /\ IF plat = "linux" /\ EnsureAudioPlayer(onPath, pm) = "fail"
              THEN /\ Exit("error", "no audio player available")
                   /\ logged' = Debug(logged, cfg.Debug, HOME,
                                      <<"platform", "audio player check failed">>)
                   /\ UNCHANGED <<launched, children, installing>>
            ELSE IF plat = "linux" /\ EnsureAudioPlayer(onPath, pm) = "install"
              THEN /\ runPc' = "install"
                   /\ launched' = Append(launched, InstallCommand)
                   /\ children' = children \cup {Len(launched) + 1}
                   /\ installing' = 1
                   /\ logged' = Debug(logged, cfg.Debug, HOME, <<"platform">>)
                   /\ UNCHANGED <<exitCode, ended, why, stages, stderr>>
            ELSE /\ Goto("resolve", <<>>)
                 /\ logged' = Debug(logged, cfg.Debug, HOME,
                                    IF plat = "linux" THEN <<"platform", "using audio player">>
                                    ELSE <<"platform">>)
                 /\ UNCHANGED <<launched, children, installing, stderr>>
    /\ UNCHANGED <<argv, runEvent, soundFiles, soundPath, onPath, stdin, drain>>
    /\ UNCHANGED <<cvars, quietVars, configVars, loadVars>>
    /\ UNCHANGED unitVars

\* installAudioPlayer and EnsureAudioPlayer (player.go:300-338): the install
\* command exits, with or without success, and cmd.Run() returns; the
\* player is on PATH afterwards (found) or not; if not, the next player's
\* install command is run, and after the last one the call fails.
InstallExits ==
    /\ runPc = "install"
    /\ \E ok \in BOOLEAN, found \in BOOLEAN :
         IF ok /\ found
           THEN /\ onPath' = {linuxAudioPlayerNames[installing]}
                /\ children' = children \ {Len(launched)}
                /\ installing' = 0
                /\ Goto("resolve", <<>>)
                /\ logged' = Debug(logged, cfg.Debug, HOME, <<"using audio player">>)
                /\ UNCHANGED <<launched, stderr>>
         ELSE IF installing < Len(linuxAudioPlayerNames)
           THEN /\ launched' = Append(launched, InstallCommand)
                /\ children' = (children \ {Len(launched)}) \cup {Len(launched) + 1}
                /\ installing' = installing + 1
                /\ UNCHANGED <<runPc, exitCode, ended, why, stages, stderr, logged, onPath>>
         ELSE /\ children' = children \ {Len(launched)}
              /\ installing' = 0
              /\ Exit("error", "no audio player available")
              /\ logged' = Debug(logged, cfg.Debug, HOME, <<"audio player check failed">>)
              /\ UNCHANGED <<launched, onPath>>
    /\ UNCHANGED <<argv, runEvent, soundFiles, soundPath, platform, stdin, drain>>
    /\ UNCHANGED <<cvars, quietVars, configVars, loadVars>>
    /\ UNCHANGED unitVars

\* part_002:1961-1969: ResolveSoundPath, GetFallbackPath when it fails.
RunResolveSound ==
    /\ runPc = "resolve"
    /\ LET r == ResolveSoundPath(gecResult.event.Sound, runEvent, soundFiles)
           path == IF r.err THEN GetFallbackPath(runEvent, soundFiles) ELSE r.path
       IN  IF path = NoPath
             THEN /\ Exit("error", "no playable sound found")
                  /\ logged' = Debug(logged, cfg.Debug, HOME, <<"sound resolution failed">>)
                  /\ UNCHANGED soundPath
             ELSE /\ soundPath' = path
                  /\ Goto("play", <<"SoundResolved">>)
                  /\ logged' = Debug(logged, cfg.Debug, HOME,
                                     (IF r.err THEN <<"sound resolution failed">> ELSE <<>>)
                                     \o <<"final sound path">>)
                  /\ UNCHANGED stderr
    /\ UNCHANGED <<argv, runEvent, launched, soundFiles, onPath, platform>>
    /\ UNCHANGED <<cvars, quietVars, configVars, loadVars>>
    /\ UNCHANGED <<envVars, unitVars>>

\* part_002:1971-1980: Play.
RunPlay ==
    /\ runPc = "play"
    /\ \E r \in Play(soundPath, platform, soundFiles, onPath) :
         /\ launched' = launched \o r.launched
         /\ children' = children \cup {i \in 1..Len(launched') : i > Len(launched)}
         /\ IF r.err
              THEN /\ Exit("error", "sound playback failed")
                   /\ logged' = Debug(logged, cfg.Debug, HOME, <<"sound playback failed">>)
              ELSE /\ Exit("playing", "")
                   /\ logged' = Debug(logged, cfg.Debug, HOME,
                                      <<"playback initiated", "completed">>)
    /\ UNCHANGED <<argv, runEvent, soundFiles, onPath, platform, soundPath>>
    /\ UNCHANGED <<stdin, drain, installing>>
    /\ UNCHANGED <<cvars, quietVars, configVars, loadVars>>
    /\ UNCHANGED unitVars

(***************************************************************************)
(* The environment of a run: its standard input and its subprocesses.      *)
(***************************************************************************)
\* The writer of the inherited stdin closes it.
StdinEOF ==
    /\ stdin = "open"
    /\ stdin' = "eof"
    /\ UNCHANGED <<argv, runEvent, runPc, exitCode, ended, why, stages, stderr, logged,
                   launched, soundFiles, onPath, platform, soundPath, drain, children,
                   installing>>
    /\ UNCHANGED <<cvars, quietVars, configVars, loadVars, unitVars>>

\* part_002:1873-1875: io.Copy of the drain goroutine returns at end of file.
DrainReturns ==
    /\ runPc # "exited"
    /\ drain = "reading"
    /\ stdin = "eof"
    /\ drain' = "done"
    /\ UNCHANGED <<argv, runEvent, runPc, exitCode, ended, why, stages, stderr, logged,
                   launched, soundFiles, onPath, platform, soundPath, stdin, children,
                   installing>>
    /\ UNCHANGED <<cvars, quietVars, configVars, loadVars, unitVars>>

\* A started audio player exits.
PlayerExits ==
    /\ \E c \in children :
         /\ launched[c] # InstallCommand
         /\ children' = children \ {c}
    /\ UNCHANGED <<argv, runEvent, runPc, exitCode, ended, why, stages, stderr, logged,
                   launched, soundFiles, onPath, platform, soundPath, stdin, drain,
                   installing>>
    /\ UNCHANGED <<cvars, quietVars, configVars, loadVars, unitVars>>

\* The arguments of the sampled invocations: none, a listed event, names
\* that are not listed, --help and -v.
Argvs == {<<>>, <<"stop">>, <<"launch_missiles">>, <<"Stop!">>, <<"--help">>, <<"-v">>}

\* The sound files of the sampled machines: none; the bundled stop sound;
\* the bundled stop sound as a broken link; that sound and a custom file.
CustomFile == <<"/", "a">>
SoundFileSamples ==
    {EmptyMap,
     [x \in {BundledPath(<<"stop">>)} |-> "file"],
     [x \in {BundledPath(<<"stop">>)} |-> "dangling"],
     [x \in {BundledPath(<<"stop">>), CustomFile} |-> "file"]}

\* The players on PATH of the sampled machines.
PathSamples == {{}, {"paplay", "ffplay"}}

\* The config files of the sampled invocations.
EmptyObject ==
    [kind |-> "object", Enabled |-> Nil, Debug |-> Nil, ActiveProfile |-> Nil,
     QuietHours |-> Nil, Events |-> Nil, Profiles |-> Nil]
StopObject(o) == Ptr([k \in {"stop"} |-> Ptr(o)])
NightWindow == QuietHours(formatTime(22, 0), formatTime(7, 0))
RunConfigObjects ==
    {EmptyObject,
     [EmptyObject EXCEPT !.Enabled = Ptr(FALSE)],
     [EmptyObject EXCEPT !.Debug = Ptr(TRUE)],
     [EmptyObject EXCEPT !.Events = StopObject([UnsetEvent EXCEPT !.Enabled = Ptr(FALSE)])],
     [EmptyObject EXCEPT !.QuietHours = NightWindow],
     [EmptyObject EXCEPT !.Events = StopObject([UnsetEvent EXCEPT !.Cooldown = Ptr(ShortCooldown)])],
     [EmptyObject EXCEPT !.Events = StopObject([UnsetEvent EXCEPT !.Sound = Ptr(<<"custom:">> \o CustomFile)])],
     [EmptyObject EXCEPT !.Events = StopObject([UnsetEvent EXCEPT !.Sound = Ptr(<<"custom:", ".", ".", "/", "a">>)])],
     \* broken files: a bad volume, an unlisted event name
     [EmptyObject EXCEPT !.Enabled = Ptr(FALSE),
                         !.Events = StopObject([UnsetEvent EXCEPT !.Volume = Ptr(101)])],
     [EmptyObject EXCEPT !.QuietHours = NightWindow, !.Debug = Ptr(TRUE),
                         !.Events = Ptr([k \in {"launch_missiles"} |->
                                           Ptr([UnsetEvent EXCEPT !.Enabled = Ptr(FALSE)])])],
     \* null entries
     [EmptyObject EXCEPT !.Events = Ptr([k \in {"stop"} |-> Nil])],
     [EmptyObject EXCEPT !.Events = Ptr([k \in {"stop", "launch_missiles"} |-> Nil])]}
RunConfigFiles ==
    {NoFile, FileOf(Malformed)} \cup {FileOf(j) : j \in RunConfigObjects}

\* The run variables where no invocation is modelled.
RunIdle ==
    /\ argv = <<>>
    /\ runEvent = ""
    /\ runPc = "args"
    /\ exitCode = -1
    /\ ended = "none"
    /\ why = ""
    /\ stages = <<"Start">>
    /\ stderr = {}
    /\ logged = <<>>
    /\ launched = <<>>
    /\ soundFiles = EmptyMap
    /\ onPath = {}
    /\ platform = ""
    /\ soundPath = NoPath
    /\ stdin = "eof"
    /\ drain = "none"
    /\ children = {}
    /\ installing = 0

\* An invocation before its first step.
InitRun ==
    /\ argv \in Argvs
    /\ runEvent = ""
    /\ runPc = "args"
    /\ exitCode = -1
    /\ ended = "none"
    /\ why = ""
    /\ stages = <<"Start">>
    /\ stderr = {}
    /\ logged = <<>>
    /\ launched = <<>>
    /\ soundFiles \in SoundFileSamples
    /\ onPath \in PathSamples
    /\ platform = ""
    /\ soundPath = NoPath
    /\ stdin = "open"
    /\ drain = IF runPc = "args" THEN "none" ELSE "reading"
    /\ children = {}
    /\ installing = 0
    /\ HOME \in {"", "home"}
    /\ \E f \in RunConfigFiles :
         configFiles = [p \in ConfigPaths |-> IF p = ConfigFilePath("home") THEN f ELSE NoFile]
    /\ loadResult = NotLoaded
    /\ InitCooldown
    /\ file \in {Absent, Doc([x \in CooldownEvents |-> StartClock - 1])}
    /\ filePath = [m \in Managers |-> NewManager(HOME)]
    /\ mgr = [p \in Procs |-> "m1"]
    /\ quietHours = NoQuietHours
    /\ qhIntent = NoWindow
    /\ wall \in {[hour |-> 23, minute |-> 0], [hour |-> 7, minute |-> 0]}
    /\ qhResult = "none"

\* A run that has validated its event name, on every sampled config file.
InitLoad ==
    /\ runEvent \in {"stop", "permission_prompt"}
    /\ argv = <<runEvent>>
    /\ runPc = "ensure"
    /\ exitCode = -1
    /\ ended = "none"
    /\ why = ""
    /\ stages = <<"Start">>
    /\ stderr = {}
    /\ logged = <<>>
    /\ launched = <<>>
    /\ soundFiles = EmptyMap
    /\ onPath = {}
    /\ platform = ""
    /\ soundPath = NoPath
    /\ stdin = "open"
    /\ drain = IF runPc = "args" THEN "none" ELSE "reading"
    /\ children = {}
    /\ installing = 0
    /\ HOME \in {"", "home"}
    /\ \E f \in ConfigFiles :
         configFiles = [p \in ConfigPaths |-> IF p = ConfigFilePath("home") THEN f ELSE NoFile]
    /\ loadResult = NotLoaded

LoadIdle ==
    /\ HOME = "home"
    /\ configFiles = [p \in ConfigPaths |-> NoFile]
    /\ loadResult = NotLoaded

(***************************************************************************)
(* Calls of ResolveSoundPath and GetFallbackPath on any sound              *)
(* specification of at most MaxSpecLen tokens.                             *)
(***************************************************************************)
Tokens == Prefixes \cup {"/", ".", ":", "a", "A"}
Strings(n) == UNION {[1..k -> Tokens] : k \in 0..n}

\* The files of the sampled machines: none; a custom file, the bundled
\* sounds a, stop and subagent and a pack sound, all regular files, beside
\* the directories / (which /.. names too) and packs/a; the same with every
\* file a broken link; the stop sound only; a broken subagent link and the
\* stop sound.
SoundEntries ==
    {CustomFile, BundledPath(<<"a">>), BundledPath(<<"stop">>),
     BundledPath(<<"subagent">>), PackPath(<<"a">>, <<"a">>)}
Directories == {<<"/">>, <<"/", ".", ".">>, PackPath(<<"a">>, <<>>)}
ResolveFileSamples ==
    {EmptyMap,
     [x \in SoundEntries \cup Directories |-> IF x \in Directories THEN "dir" ELSE "file"],
     [x \in SoundEntries \cup Directories |-> IF x \in Directories THEN "dir" ELSE "dangling"],
     [x \in {BundledPath(<<"stop">>)} |-> "file"],
     [x \in {BundledPath(<<"stop">>), BundledPath(<<"subagent">>)} |->
        IF x = BundledPath(<<"stop">>) THEN "file" ELSE "dangling"]}

NotResolved == [called |-> FALSE, result |-> ResolveError, fallback |-> NoPath]

ResolveIdle ==
    /\ resolveIn = [homeDir |-> "", soundSpec |-> <<>>, event |-> "stop", files |-> EmptyMap]
    /\ resolveOut = NotResolved

InitResolve ==
    /\ resolveIn \in [homeDir : {"", "home"}, soundSpec : Strings(MaxSpecLen),
                       event : {"subagent"}, files : ResolveFileSamples]
    /\ resolveOut = NotResolved

\* ResolveSoundPath, and GetFallbackPath as run() calls it for the same event.
CallResolveSoundPath ==
    /\ ~resolveOut.called
    /\ resolveOut' =
         [called |-> TRUE,
          result |-> ResolveSoundPathWithHome(resolveIn.homeDir, resolveIn.soundSpec,
                                              resolveIn.event, resolveIn.files),
          fallback |-> GetFallbackPath(resolveIn.event, resolveIn.files)]
    /\ UNCHANGED <<resolveIn, playIn, playOut, logVars>>
    /\ UNCHANGED <<cvars, quietVars, configVars, loadVars, runVars>>

(***************************************************************************)
(* Calls of Play on every platform and every set of players on PATH.       *)
(***************************************************************************)
NotPlayed == [called |-> FALSE, err |-> FALSE, why |-> "", launched |-> <<>>]

PlayIdle ==
    /\ playIn = [soundPath |-> NoPath, platform |-> "unknown", files |-> EmptyMap,
                 onPath |-> {}]
    /\ playOut = NotPlayed

InitPlay ==
    /\ playIn \in [soundPath : {NoPath, BundledPath(<<"stop">>)},
                    platform : Platforms,
                    files : {EmptyMap, [x \in {BundledPath(<<"stop">>)} |-> "file"]},
                    onPath : SUBSET {linuxAudioPlayerNames[i] : i \in 1..Len(linuxAudioPlayerNames)}]
    /\ playOut = NotPlayed

CallPlay ==
    /\ ~playOut.called
    /\ \E r \in Play(playIn.soundPath, playIn.platform, playIn.files, playIn.onPath) :
         playOut' = [called |-> TRUE, err |-> r.err, why |-> r.why, launched |-> r.launched]
    /\ UNCHANGED <<resolveIn, resolveOut, playIn, logVars>>
    /\ UNCHANGED <<cvars, quietVars, configVars, loadVars, runVars>>

(***************************************************************************)
(* The Logger (part_005).  A log file holds the numbers of the Debug calls *)
(* that wrote its lines, 0 and below for lines of earlier runs; its size   *)
(* is the number of its lines.                                             *)
(***************************************************************************)
\* RotateCount (part_005:16).
RotateCount == 3

\* <homeDir>/.claude/ccbell.log, and fmt.Sprintf("%s.%d", path, i).
LogPath == <<"log">>
Rotated(path, i) == Append(path, i)

\* New (part_005:30-41).
NewLogger(enabled, homeDir) ==
    [enabled |-> enabled, filePath |-> IF homeDir # "" THEN LogPath ELSE <<>>]

\* The file operations of a Debug call that can fail.
Faults == {"shift1", "shift2", "rotate", "truncate", "open"}

\* os.Rename(old, new): nothing changes when old is missing or the call
\* fails, else new holds what old held.
Rename(fs, old, new, fails) ==
    IF old \notin DOMAIN fs \/ fails THEN fs
    ELSE [x \in (DOMAIN fs \ {old}) \cup {new} |-> IF x = new THEN fs[old] ELSE fs[x]]

\* The loop of rotateIfNeeded (part_005:80-86), from i down to 1.
RECURSIVE Shift(_, _, _, _)
Shift(fs, path, i, faults) ==
    IF i < 1 THEN fs
    ELSE Shift(Rename(fs, Rotated(path, i - 1), Rotated(path, i),
                      (IF i = 1 THEN "shift1" ELSE "shift2") \in faults),
               path, i - 1, faults)

\* A rotation that does not move the rotated files up.
rotateWithoutShift(fs, path, faults) ==
    IF path \notin DOMAIN fs THEN fs
    ELSE IF Len(fs[path]) < MaxLogSize THEN fs
    ELSE IF "rotate" \notin faults THEN Rename(fs, path, Rotated(path, 0), FALSE)
    ELSE IF "truncate" \notin faults THEN [fs EXCEPT ![path] = <<>>]
    ELSE fs

\* rotateIfNeeded (part_005:69-96).
rotateIfNeeded(fs, path, faults) ==
    IF path \notin DOMAIN fs THEN fs
    ELSE IF Len(fs[path]) < MaxLogSize THEN fs
    ELSE LET shifted == Shift(fs, path, RotateCount - 1, faults) IN
         IF "rotate" \notin faults THEN Rename(shifted, path, Rotated(path, 0), FALSE)
         ELSE IF "truncate" \notin faults THEN [shifted EXCEPT ![path] = <<>>]
         ELSE shifted

\* Debug (part_005:44-66) on the files fs, writing the line msg.
LoggerDebug(l, fs, msg, faults) ==
    IF ~l.enabled \/ l.filePath = <<>> THEN fs
    ELSE LET rotated == rotateIfNeeded(fs, l.filePath, faults) IN
         IF "open" \in faults THEN rotated
         ELSE [x \in DOMAIN rotated \cup {l.filePath} |->
                 IF x # l.filePath THEN rotated[x]
                 ELSE IF x \in DOMAIN rotated THEN Append(rotated[x], msg)
                 ELSE <<msg>>]

\* The log files earlier runs can have left: none; a short log; a log at
\* MaxLogSize; the same beside one, and beside three, rotated files.
OldLines(n) == [i \in 1..n |-> 0]
LogFileSamples ==
    {EmptyMap,
     [x \in {LogPath} |-> OldLines(1)],
     [x \in {LogPath} |-> OldLines(MaxLogSize)],
     [x \in {LogPath, Rotated(LogPath, 0)} |->
        IF x = LogPath THEN OldLines(MaxLogSize) ELSE <<-1>>],
     [x \in {LogPath} \cup {Rotated(LogPath, i) : i \in 0..(RotateCount - 1)} |->
        IF x = LogPath THEN OldLines(1) ELSE <<-1 - x[2]>>]}

LogIdle ==
    /\ logger = NewLogger(FALSE, "")
    /\ logFiles = EmptyMap
    /\ logCalls = 0
    /\ logFaults = {}

InitLog ==
    /\ logger \in {NewLogger(e, h) : e \in BOOLEAN, h \in {"", "home"}}
    /\ logFiles \in LogFileSamples
    /\ logCalls = 0
    /\ logFaults = {}

\* One call of Debug, in which any of the file operations may fail.
CallDebug ==
    /\ logCalls < MaxDebugCalls
    /\ \E faults \in SUBSET Faults :
         /\ logFiles' = LoggerDebug(logger, logFiles, logCalls + 1, faults)
         /\ logFaults' = faults
    /\ logCalls' = logCalls + 1
    /\ UNCHANGED <<logger, resolveIn, resolveOut, playIn, playOut>>
    /\ UNCHANGED <<cvars, quietVars, configVars, loadVars, runVars>>

\* The variables of the calls of single functions where none is modelled.
UnitIdle ==
    /\ ResolveIdle
    /\ PlayIdle
    /\ LogIdle

Next ==
    \/ \E p \in Procs : \E e \in CooldownEvents : \E c \in Cooldowns : Call(p, e, c)
    \/ \E p \in Procs : Lock(p)
    \/ \E p \in Procs : Load(p)
    \/ \E p \in Procs : Check(p)
    \/ \E p \in Procs : SaveMkdirAll(p)
    \/ \E p \in Procs : SaveCreateTemp(p)
    \/ \E p \in Procs : SaveChmod(p)
    \/ \E p \in Procs : SaveWrite(p)
    \/ \E p \in Procs : SaveClose(p)
    \/ \E p \in Procs : SaveRename(p)
    \/ \E p \in Procs : SaveCleanup(p)
    \/ \E p \in Procs : RunAfterCooldown(p)
    \/ \E m \in Managers : Crash(m)
    \/ Tick

vars == <<cvars, quietVars, configVars, loadVars, runVars, unitVars>>

CooldownIdle ==
    /\ InitCooldown
    /\ file = Absent
    /\ filePath = [m \in Managers |-> NewManager("home")]
    /\ mgr = [p \in Procs |-> "m1"]

\* The cooldown state: callers of CheckCooldown on one state file.
Init == InitCooldown /\ QuietIdle /\ ConfigIdle /\ LoadIdle /\ RunIdle /\ UnitIdle
Spec == Init /\ [][Next]_vars

\* The quiet-hours check on every sampled window and wall-clock time.
NextQuiet == CheckQuietHours
QuietInit == InitQuiet /\ CooldownIdle /\ ConfigIdle /\ LoadIdle /\ RunIdle /\ UnitIdle
SpecQuiet == QuietInit /\ [][NextQuiet]_vars

\* GetEventConfig on every sampled configuration.
NextConfig == \E e \in {"stop", "subagent"} : CallGetEventConfig(e)
ConfigInit == InitConfig /\ CooldownIdle /\ QuietIdle /\ LoadIdle /\ RunIdle /\ UnitIdle
SpecConfig == ConfigInit /\ [][NextConfig]_vars

\* GetEventConfig on every sampled Config value, null entries included, for a
\* listed event and for a name outside the whitelist.
NextAnyConfig == \E e \in {"stop", "launch_missiles"} : CallGetEventConfig(e)
AnyConfigInit == InitAnyConfig /\ CooldownIdle /\ QuietIdle /\ LoadIdle /\ RunIdle /\ UnitIdle
SpecAnyConfig == AnyConfigInit /\ [][NextAnyConfig]_vars

\* A run up to GetEventConfig on every sampled config file.
NextLoad ==
    \/ RunEnsureConfig
    \/ RunLoad
    \/ RunLogger
    \/ RunGlobalEnable
    \/ RunGetEventConfig
LoadInit == InitLoad /\ CooldownIdle /\ QuietIdle /\ ConfigIdle /\ UnitIdle
SpecLoad == LoadInit /\ [][NextLoad]_vars

\* The steps an invocation takes by itself: every step of run() but the
\* return of cmd.Run(), which waits for the install command to exit.
ProgramStep ==
    \/ RunArgs
    \/ RunEnsureConfig
    \/ RunLoad
    \/ RunLogger
    \/ RunGlobalEnable
    \/ RunGetEventConfig
    \/ RunEventEnabled
    \/ RunQuietHours
    \/ RunCheckCooldown
    \/ Lock(RunProc)
    \/ Load(RunProc)
    \/ Check(RunProc)
    \/ SaveMkdirAll(RunProc)
    \/ SaveCreateTemp(RunProc)
    \/ SaveChmod(RunProc)
    \/ SaveWrite(RunProc)
    \/ SaveClose(RunProc)
    \/ SaveRename(RunProc)
    \/ SaveCleanup(RunProc)
    \/ RunAfterCooldown(RunProc)
    \/ RunProceed
    \/ RunNewPlayer
    \/ RunResolveSound
    \/ RunPlay

\* One invocation, from its arguments to its exit.
NextRun ==
    \/ RunArgs
    \/ RunEnsureConfig
    \/ RunLoad
    \/ RunLogger
    \/ RunGlobalEnable
    \/ RunGetEventConfig
    \/ RunEventEnabled
    \/ RunQuietHours
    \/ RunCheckCooldown
    \/ Lock(RunProc)
    \/ Load(RunProc)
    \/ Check(RunProc)
    \/ SaveMkdirAll(RunProc)
    \/ SaveCreateTemp(RunProc)
    \/ SaveChmod(RunProc)
    \/ SaveWrite(RunProc)
    \/ SaveClose(RunProc)
    \/ SaveRename(RunProc)
    \/ SaveCleanup(RunProc)
    \/ RunAfterCooldown(RunProc)
    \/ RunProceed
    \/ RunNewPlayer
    \/ InstallExits
    \/ RunResolveSound
    \/ RunPlay
RunInit == InitRun /\ ConfigIdle /\ UnitIdle
SpecRun == RunInit /\ [][NextRun]_vars

\* ResolveSoundPath and GetFallbackPath on every sampled specification.
NextResolve == CallResolveSoundPath
ResolveInit ==
    /\ InitResolve
    /\ PlayIdle
    /\ LogIdle
    /\ CooldownIdle /\ QuietIdle /\ ConfigIdle /\ LoadIdle /\ RunIdle
SpecResolve == ResolveInit /\ [][NextResolve]_vars

\* Debug calls on every sampled Logger and log directory.
NextLog == CallDebug
LogInit ==
    /\ InitLog
    /\ ResolveIdle
    /\ PlayIdle
    /\ CooldownIdle /\ QuietIdle /\ ConfigIdle /\ LoadIdle /\ RunIdle
SpecLog == LogInit /\ [][NextLog]_vars

\* Play on every sampled machine.
NextPlay == CallPlay
PlayInit ==
    /\ InitPlay
    /\ ResolveIdle
    /\ LogIdle
    /\ CooldownIdle /\ QuietIdle /\ ConfigIdle /\ LoadIdle /\ RunIdle
SpecPlay == PlayInit /\ [][NextPlay]_vars

\* One invocation for "stop" together with its environment: the writer of
\* its stdin and the subprocesses it started.
InitEnv ==
    /\ InitRun
    /\ argv = <<"stop">>
    /\ HOME = "home"
    /\ configFiles[ConfigFilePath("home")] \in
         {NoFile,
          FileOf([EmptyObject EXCEPT !.Events =
                    StopObject([UnsetEvent EXCEPT !.Cooldown = Ptr(ShortCooldown)])])}
    /\ file = Absent
    /\ wall = [hour |-> 7, minute |-> 0]
NextEnv ==
    \/ ProgramStep
    \/ InstallExits
    \/ StdinEOF
    \/ DrainReturns
    \/ PlayerExits
EnvInit == InitEnv /\ ConfigIdle /\ UnitIdle
SpecEnv == EnvInit /\ [][NextEnv]_vars

(***************************************************************************)
(* Properties of the cooldown state.                                       *)
(***************************************************************************)
\* All callers use one Manager, so Manager.mu serializes them.
OneManager == \A p, q \in Procs : mgr[p] = mgr[q]

\* p's call of CheckCooldown returns in this step.
Returning(p) == pc[p] # "ret" /\ pc'[p] = "ret"

\* p's call had a cooldown to check (state.go:45 did not return).
Checked(p) == cd[p] > 0 /\ filePath[mgr[p]] # ""

\* The key of p's call in the history okAt.
Key(p) == <<ev[p], cd[p]>>

\* The call of p that returns falls inside the window [t, t + c) opened by
\* the last (false, nil) return of CheckCooldown(e, c).
InsideWindow(p) ==
    /\ okAt[Key(p)] > 0
    /\ okAt[Key(p)] <= now'[p]
    /\ now'[p] < okAt[Key(p)] + cd[p]

\* C1: on one Manager, once CheckCooldown(e, c), c > 0, has returned
\* (false, nil) at time t, every later CheckCooldown(e, c) at a time t' with
\* t <= t' < t + c returns (true, nil) and leaves the state file as it was.
C1_ThrottledInsideWindow ==
    [][\A p \in Procs :
         (OneManager /\ Returning(p) /\ Checked(p) /\ InsideWindow(p))
         => /\ res'[p] = Result(TRUE, FALSE)
            /\ file' = file
            /\ file = snap[p]]_vars

\* C1 witness: a call throttled at the very second of the (false, nil) return
\* of an earlier call with the same event and cooldown.
C1_Witness ==
    \E p \in Procs :
        /\ OneManager /\ pc[p] = "ret" /\ Checked(p)
        /\ res[p] = Result(TRUE, FALSE)
        /\ okAt[Key(p)] = now[p]
        /\ file = snap[p]

\* C2: the first CheckCooldown(e, c), c > 0, on fresh state (no state file)
\* returns not-in-cooldown, for every c.
C2_FirstCallNotThrottled ==
    \A p \in Procs :
        (pc[p] = "ret" /\ Checked(p) /\ touched[p] /\ snap[p] = Absent)
        => ~res[p].inCooldown

\* C3: CheckCooldown(e, c) with c <= 0 or an empty state path returns
\* (false, nil) and neither reads, creates nor modifies the state file.
C3_NoCooldownNoFileAccess ==
    /\ [](\A p \in Procs :
            (pc[p] = "ret" /\ ~Checked(p)) => (res[p] = Result(FALSE, FALSE) /\ ~touched[p]))
    /\ [][\A p \in Procs : \A e \in CooldownEvents : \A c \in Cooldowns :
            (Call(p, e, c) /\ (c <= 0 \/ filePath[mgr[p]] = ""))
            => /\ pc'[p] = "ret"
               /\ res'[p] = Result(FALSE, FALSE)
               /\ file' = file /\ temp' = temp]_vars

\* C3 witness: a call with c <= 0 has returned while the state file holds a
\* timestamp for its event that a positive cooldown would still throttle on.
C3_Witness ==
    \E p \in Procs :
        /\ pc[p] = "ret" /\ cd[p] <= 0 /\ filePath[mgr[p]] # ""
        /\ res[p] = Result(FALSE, FALSE) /\ ~touched[p]
        /\ file.kind = "doc"
        /\ Lookup(file.lt, ev[p]) > 0
        /\ InCooldown(file.lt, ev[p], ShortCooldown, clock)

\* No not-throttled decision falls inside the window opened by the last
\* (false, nil) return for the same event and cooldown.
OncePerInterval(p) ==
    (Returning(p) /\ Checked(p) /\ ~res'[p].inCooldown)
    => (okAt[Key(p)] = 0 \/ now'[p] >= okAt[Key(p)] + cd[p])

\* C4 as stated: at most one invocation per interval of c seconds gets the
\* not-throttled decision, under every interleaving, separate processes and
\* separate Managers included.
C4_AtMostOncePerInterval_AnyInterleaving ==
    [][\A p \in Procs : OncePerInterval(p)]_vars

\* C4 amended: among invocations serialized by one Manager's lock, no
\* invocation gets the not-throttled decision within c seconds after one that
\* returned (false, nil).
C4_AtMostOncePerInterval_OneManager ==
    [][\A p \in Procs : OneManager => OncePerInterval(p)]_vars

\* C4 witness: on one Manager a call got (false, nil) after the interval of an
\* earlier recorded fire of its event had elapsed.
C4_Witness ==
    \E p \in Procs :
        /\ OneManager /\ pc[p] = "ret" /\ Checked(p)
        /\ res[p] = Result(FALSE, FALSE)
        /\ Lookup(LoadState(snap[p]), ev[p]) > 0
        /\ now[p] >= Lookup(LoadState(snap[p]), ev[p]) + cd[p]
        /\ okAt[Key(p)] = now[p]

\* A file no reader can take for a document: written in part.
Torn(f) == f.kind \in {"empty", "partial"}

Stored(f, e) == Lookup(LoadState(f), e)

\* C6: on one Manager, the stored timestamp of an event e2, and with it the
\* decision of a following CheckCooldown(e2, c), changes only in the save of a
\* call for e2 itself, never in a call for another event.
C6_PerEvent ==
    [][\A e2 \in CooldownEvents :
         (OneManager /\
            (\/ Stored(file', e2) # Stored(file, e2)
             \/ \E c \in Cooldowns :
                  InCooldown(LoadState(file'), e2, c, clock)
                    # InCooldown(LoadState(file), e2, c, clock)))
         => \E p \in Procs : pc[p] = "rename" /\ pc'[p] = "ret" /\ ev[p] = e2]_vars

\* C6 witness: a call for one event has saved its new timestamp while the file
\* keeps the older timestamp of the other event.
C6_Witness ==
    \E p \in Procs : \E e2 \in CooldownEvents :
        /\ OneManager /\ pc[p] = "ret" /\ Checked(p)
        /\ res[p] = Result(FALSE, FALSE)
        /\ e2 # ev[p]
        /\ file.kind = "doc"
        /\ Stored(file, ev[p]) = now[p]
        /\ Stored(file, e2) > 0
        /\ Stored(file, e2) = Stored(snap[p], e2)
        /\ Stored(file, e2) < now[p]

\* C7: a missing, unreadable or unparseable state file is treated as empty
\* state: CheckCooldown(e, c), c > 0, returns not-in-cooldown, with no error
\* for the bad file, and its save leaves a document holding only e's timestamp.
C7_BadFileIsEmptyState ==
    [][\A p \in Procs :
         (/\ OneManager /\ Returning(p) /\ Checked(p) /\ touched[p]
          /\ snap[p].kind \in {"absent", "unreadable", "corrupt"})
         => /\ ~res'[p].inCooldown
            /\ ~res'[p].err => file' = Doc([x \in {ev[p]} |-> now'[p]])]_vars

\* C8: when the not-throttled decision is taken and the save fails,
\* CheckCooldown returns (false, err), never (true, _), the state file keeps
\* its content, and run() logs the error and goes on to sound resolution.
C8_SaveFailureProceeds ==
    /\ [](\A p \in Procs :
            /\ (pc[p] = "ret" /\ res[p].err)
               => (~res[p].inCooldown /\ temp[p] = Absent)
            /\ (pc[p] = "idle" /\ res[p].set /\ res[p].err)
               => outcome[p] = [next |-> "resolve", log |-> "cooldown check error"])
    /\ [][\A p \in Procs :
            (Returning(p) /\ res'[p].err)
            => /\ file' = file
               /\ OneManager => file = snap[p]]_vars

\* C8 witness: run() went on to sound resolution after a failed save, and the
\* state file still holds the document it held before.
C8_Witness ==
    \E p \in Procs :
        /\ OneManager /\ pc[p] = "idle" /\ res[p] = Result(FALSE, TRUE)
        /\ outcome[p] = [next |-> "resolve", log |-> "cooldown check error"]
        /\ file = Doc([x \in CooldownEvents |-> StartClock - 1])
        /\ clock > StartClock

(***************************************************************************)
(* Properties of the quiet-hours check.                                    *)
(***************************************************************************)
\* The window test on minutes since midnight.
InWindow(startAt, endAt, nowAt) ==
    IF startAt = endAt THEN FALSE
    ELSE IF startAt < endAt THEN startAt <= nowAt /\ nowAt < endAt
    ELSE nowAt >= startAt \/ nowAt < endAt

QuietReference(w, nowAt) ==
    /\ w.present
    /\ w.start.ok /\ w.end.ok
    /\ InWindow(w.start.at.hour * 60 + w.start.at.minute,
                w.end.at.hour * 60 + w.end.at.minute, nowAt)

\* C9: IsInQuietHours is false when the window is absent, a bound is empty or
\* unparseable, or start = end; true iff start <= now < end when start < end;
\* true iff now >= start or now < end when start > end.
C9_QuietHoursReference ==
    qhResult # "none" =>
        (qhResult = "quiet") = QuietReference(qhIntent, wall.hour * 60 + wall.minute)

\* C9 witness: inside a window that wraps midnight, in its part after midnight.
C9_Witness ==
    /\ qhResult = "quiet"
    /\ qhIntent.present /\ qhIntent.start.ok /\ qhIntent.end.ok
    /\ CurrentMins(qhIntent.start.at) > CurrentMins(qhIntent.end.at)
    /\ CurrentMins(wall) < CurrentMins(qhIntent.end.at)

(***************************************************************************)
(* Properties of the event configuration.                                  *)
(***************************************************************************)
EventFields == {"Enabled", "Sound", "Volume", "Cooldown"}

\* Field f of override o is set: a non-nil pointer, a non-empty sound.
FieldSet(o, f) == IF f = "Sound" THEN o.Sound # <<>> ELSE o[f] # Nil

\* Profile overrides apply: the active profile is named, is not "default"
\* and is in the profile map.
ProfileApplies(c) ==
    /\ c.ActiveProfile # ""
    /\ c.ActiveProfile # "default"
    /\ c.ActiveProfile \in DOMAIN c.Profiles

\* The layers holding an override for e, the most specific first.
Layers(c, e) ==
    (IF ProfileApplies(c) /\ e \in DOMAIN Deref(c.Profiles[c.ActiveProfile]).Events
       THEN <<Deref(Deref(c.Profiles[c.ActiveProfile]).Events[e])>> ELSE <<>>)
    \o (IF e \in DOMAIN c.Events THEN <<Deref(c.Events[e])>> ELSE <<>>)

\* Field f by layer precedence: the first layer that sets it, else the default.
ByPrecedence(c, e, f) ==
    LET ls == Layers(c, e)
        setIn == {i \in 1..Len(ls) : FieldSet(ls[i], f)}
    IN  IF setIn = {} THEN DefaultEvent(e)[f]
        ELSE ls[CHOOSE i \in setIn : \A j \in setIn : i <= j][f]

\* C10: GetEventConfig(e) resolves each of enabled, sound, volume and cooldown
\* on its own: the active profile's value if set there, else the base event's
\* value if set there, else the built-in default; the profile counts only when
\* its name is non-empty, not "default" and in the profile map.
C10_LayerPrecedence ==
    gecEvent # "" =>
        /\ ~gecResult.panic
        /\ \A f \in EventFields : gecResult.event[f] = ByPrecedence(cfg, gecEvent, f)

\* C10 witness: one result takes a field from the profile, one from the base
\* event and one from the defaults.
C10_Witness ==
    /\ gecEvent = "stop"
    /\ ProfileApplies(cfg)
    /\ Len(Layers(cfg, gecEvent)) = 2
    /\ LET prof == Layers(cfg, gecEvent)[1]
           base == Layers(cfg, gecEvent)[2]
       IN  /\ prof.Enabled = Ptr(FALSE) /\ base.Enabled = Ptr(TRUE)
           /\ gecResult.event.Enabled = Ptr(FALSE)
           /\ prof.Volume = Nil /\ base.Volume = Ptr(80)
           /\ gecResult.event.Volume = Ptr(80)
           /\ prof.Cooldown = Nil /\ base.Cooldown = Nil
           /\ gecResult.event.Cooldown = Ptr(0)
           /\ prof.Sound = <<>> /\ base.Sound # <<>>
           /\ gecResult.event.Sound = base.Sound

\* No profile override applies to e in c.
NoProfileOverride(c, e) ==
    ~(ProfileApplies(c) /\ e \in DOMAIN Deref(c.Profiles[c.ActiveProfile]).Events)

\* Field f of the base event config for e laid over the built-in defaults.
BaseOverDefaults(c, e, f) ==
    IF e \in DOMAIN c.Events /\ FieldSet(Deref(c.Events[e]), f)
      THEN Deref(c.Events[e])[f]
      ELSE DefaultEvent(e)[f]

C13_NeverFails ==
    gecEvent # "" =>
        /\ ~gecResult.panic
        /\ \A f \in EventFields : FieldSet(gecResult.event, f)

(***************************************************************************)
(* Properties of the configuration file and its event overrides.           *)
(***************************************************************************)
\* The JSON object Load read, when it read one.
LoadedObject == configFiles[ConfigFilePath(HOME)].data

\* Load read the config file and returned a Config.
LoadedFromFile ==
    /\ loadResult.status # "none"
    /\ loadResult.status = "ok"
    /\ loadResult.configPath # ""

\* The member for event e of a JSON events member: Nil when there is none.
ObjectFor(events, e) ==
    IF events = Nil THEN Nil
    ELSE IF e \notin DOMAIN Deref(events) THEN Nil
    ELSE Deref(events)[e]

\* The active profile's object for e in the file, Nil when no profile applies
\* or it has none for e.
ProfileObject(j, c, e) ==
    IF ProfileApplies(c) /\ j.Profiles # Nil
      THEN IF c.ActiveProfile \in DOMAIN Deref(j.Profiles)
             THEN ObjectFor(Deref(Deref(j.Profiles)[c.ActiveProfile]).Events, e)
             ELSE Nil
      ELSE Nil

\* The most specific object the file holds for e: the active profile's, else
\* the base event's, else Nil.
TopObject(j, c, e) ==
    IF ProfileObject(j, c, e) # Nil THEN ProfileObject(j, c, e)
    ELSE ObjectFor(j.Events, e)

\* What the layers below the most specific object resolve to.
BelowTop(j, c, e) ==
    IF ProfileObject(j, c, e) # Nil
      THEN GetEventConfig([c EXCEPT !.ActiveProfile = ""], e).event
      ELSE IF e \in DOMAIN Default.Events THEN Deref(Default.Events[e])
      ELSE DefaultEvent(e)

\* Field f of an effective setting as a JSON member.
Member(event, f) == IF f = "Sound" THEN Ptr(event.Sound) ELSE event[f]

\* For the fields fs: a member the most specific object sets, zero value
\* included, is the effective value; a member it leaves out is inherited.
ZeroDistinctFromUnset(fs) ==
    (LoadedFromFile /\ gecEvent # "" /\ TopObject(LoadedObject, cfg, gecEvent) # Nil) =>
        LET top == Deref(TopObject(LoadedObject, cfg, gecEvent)) IN
        \A f \in fs :
            Member(gecResult.event, f) =
                IF top[f] # Nil THEN top[f]
                ELSE Member(BelowTop(LoadedObject, cfg, gecEvent), f)

\* C11: for every field of a per-event override (enabled, sound, volume,
\* cooldown) an explicit zero value in the more specific layer replaces the
\* value of the less specific layers, while a field that is not set inherits
\* it.
C11_ZeroDistinctFromUnset == ZeroDistinctFromUnset(EventFields)

\* The same for the three pointer fields only.
PointerFieldsZeroDistinct == ZeroDistinctFromUnset(EventFields \ {"Sound"})

\* EnsureConfig wrote the default configuration and Load has read it back.
DefaultRoundTrip ==
    /\ loadResult.status # "none"
    /\ HOME # ""
    /\ configFiles[ConfigFilePath(HOME)] = FileOf(Marshal(Default))

\* C14: the default configuration written by EnsureConfig and loaded back
\* passes Validate, and its effective setting for every valid event name is
\* the built-in default: enabled, sound bundled:<event>, volume 0.5,
\* cooldown 0.
C14_DefaultRoundTrip ==
    DefaultRoundTrip =>
        /\ loadResult.status = "ok"
        /\ \A e \in ValidEvents :
              GetEventConfig(Deref(loadResult.cfg), e) = Returned(DefaultEvent(e))
        /\ gecEvent # "" => gecResult = Returned(DefaultEvent(gecEvent))

\* A bound is HH:MM: a time of day written with two digits each.
IsHHMM(s) == \E h \in 0..23 : \E m \in 0..59 : s = formatTime(h, m)

\* The non-null entries of an event map, and the event maps of a Config: the
\* base one and that of every non-null profile.
Entries(m) == {Deref(m[k]) : k \in {x \in DOMAIN m : m[x] # Nil}}
AllEventMaps(c) ==
    {c.Events} \cup {Deref(c.Profiles[k]).Events :
                       k \in {x \in DOMAIN c.Profiles : c.Profiles[x] # Nil}}

\* The Config breaks one of the rules Validate enforces.
Violates(c) ==
    \/ \E m \in AllEventMaps(c) : \E name \in DOMAIN m : name \notin ValidEvents
    \/ \E m \in AllEventMaps(c) : \E o \in Entries(m) :
          o.Volume # Nil /\ ~(Deref(o.Volume) \in 0..100)
    \/ \E m \in AllEventMaps(c) : \E o \in Entries(m) :
          o.Cooldown # Nil /\ ~(Deref(o.Cooldown) >= 0)
    \/ c.ActiveProfile \notin {"", "default"} /\ c.ActiveProfile \notin DOMAIN c.Profiles
    \/ \E q \in c.QuietHours :
          \/ q.Start # <<>> /\ ~IsHHMM(q.Start)
          \/ q.End # <<>> /\ ~IsHHMM(q.End)

\* Load got to Validate, and the Config it called Validate on.
ReachedValidate ==
    /\ loadResult.status # "none"
    /\ ~(loadResult.status = "err" /\ loadResult.configPath = "")
ValidatedConfig ==
    IF HOME # "" /\ configFiles[ConfigFilePath(HOME)].kind = "file"
      THEN Unmarshal(LoadedObject, Default)
      ELSE Default

\* A Config with a null entry in an event map or in the profile map.
HasNullEntry(c) ==
    \/ \E k \in DOMAIN c.Profiles : c.Profiles[k] = Nil
    \/ \E m \in AllEventMaps(c) : \E k \in DOMAIN m : m[k] = Nil

\* Validate's answer on the Configs cs: an error exactly for those that
\* break a rule, no panic, and the Config left as it was.
ValidateIff(nullsToo) ==
    (ReachedValidate /\ (nullsToo \/ ~HasNullEntry(ValidatedConfig))) =>
        /\ loadResult.status # "panic"
        /\ loadResult.status = "err" <=> Violates(ValidatedConfig)
        /\ loadResult.status = "ok" => Deref(loadResult.cfg) = ValidatedConfig

\* C15: Validate returns an error if and only if the configuration has an
\* event name (in the base map or in any profile) outside the closed set, a
\* set volume outside [0.0, 1.0], a set cooldown below 0, a non-empty active
\* profile other than "default" that is not in the profile map, or a
\* non-empty quiet-hours bound that is not HH:MM; it never panics and never
\* changes a value.
C15_ValidateIff == ValidateIff(TRUE)

\* The same on the configurations without null entries.
ValidateIffWithoutNulls == ValidateIff(FALSE)

(***************************************************************************)
(* Properties of an invocation.                                            *)
(***************************************************************************)
Exited == runPc = "exited"

\* The config file Load reads is malformed or breaks a rule of Validate.
BrokenConfig ==
    /\ HOME # ""
    /\ configFiles[ConfigFilePath(HOME)].kind = "file"
    /\ \/ LoadedObject = Malformed
       \/ Violates(Unmarshal(LoadedObject, Default))

\* A broken config file does not abort the run: Load returns an error, the
\* error is reported, and the run goes on as with Default(), in which no
\* setting suppresses or delays the notification.
LoadFailureUsesDefaults(nullsToo) ==
    (BrokenConfig /\ loadResult.status # "none"
     /\ (nullsToo \/ LoadedObject = Malformed
         \/ ~HasNullEntry(Unmarshal(LoadedObject, Default)))) =>
        /\ loadResult.status = "err"
        /\ cfg = Default
        /\ runPc # "logger" => "config error, using defaults" \in stderr
        /\ pc[RunProc] \in {"idle", "ret"}
        /\ Exited => /\ ended \in {"playing", "error"}
                     /\ why \in {"", "no audio player available",
                                  "no playable sound found", "sound playback failed"}

\* C16: when loading the configuration fails (malformed JSON or a validation
\* error) the invocation is not aborted: it reports the error and runs the
\* rest of the pipeline with the built-in default configuration, so no
\* setting of the broken file (enabled=false, quiet hours, cooldowns) takes
\* effect in that run.
C16_LoadFailureUsesDefaults == LoadFailureUsesDefaults(TRUE)

\* The same on the config files without null entries.
LoadFailureUsesDefaultsWithoutNulls == LoadFailureUsesDefaults(FALSE)

\* The argument is neither a valid event name nor --help or --version.
InvalidArg ==
    /\ Len(argv) > 0
    /\ argv[1] \notin ValidEvents \cup {"--version", "-v", "--help", "-h"}

\* C17: an invocation whose event name is not a valid event identifier ends
\* with a validation error and a non-zero exit before any other step: no
\* config file is created, no state or log file is written and no
\* subprocess is launched.
C17_InvalidEventEndsFirst ==
    /\ [](InvalidArg /\ runPc # "args" =>
            /\ Exited
            /\ ended = "error"
            /\ why \in {"invalid event type format", "unknown event type"}
            /\ exitCode # 0
            /\ stages = <<"Start">>
            /\ loadResult = NotLoaded
            /\ res[RunProc] = NoRes
            /\ logged = <<>>
            /\ launched = <<>>)
    /\ [][InvalidArg => configFiles' = configFiles /\ file' = file /\ temp' = temp]_vars

\* C17 witness: the run for "launch_missiles" has ended.
C17_Witness ==
    /\ argv = <<"launch_missiles">>
    /\ Exited
    /\ exitCode = 1
    /\ configFiles[ConfigFilePath("home")] = NoFile

\* The loaded configuration suppresses the event before the cooldown check:
\* the plugin or the event is disabled, or it is quiet hours.
SuppressedByConfig ==
    /\ loadResult.status \in {"ok", "err"}
    /\ runPc # "logger"
    /\ \/ ~cfg.Enabled
       \/ ByPrecedence(cfg, runEvent, "Enabled") = Ptr(FALSE)
       \/ IsInQuietHours(cfg.QuietHours, CurrentMins(wall))

\* C18: an invocation suppressed because the plugin is globally disabled,
\* the event is disabled or the time is inside the quiet-hours window ends
\* with exit code 0 before the cooldown check and before sound resolution:
\* CheckCooldown is not called, the state file is left as it was and no
\* subprocess is launched.
C18_SuppressedBeforeCooldown ==
    /\ [](Exited =>
            /\ SuppressedByConfig <=>
                 (ended = "suppressed"
                  /\ why \in {"plugin disabled", "event disabled", "quiet hours"})
            /\ SuppressedByConfig =>
                 /\ exitCode = 0
                 /\ res[RunProc] = NoRes
                 /\ pc[RunProc] = "idle"
                 /\ launched = <<>>
                 /\ \A i \in 1..Len(stages) : stages[i] \notin {"CooldownCheck", "SoundResolved"})
    /\ [][res'[RunProc] = NoRes /\ pc'[RunProc] = "idle" => file' = file /\ temp' = temp]_vars

\* C18 witness: a run for an event with a cooldown and a state file on disk
\* was suppressed by the quiet hours.
C18_Witness ==
    /\ Exited
    /\ ended = "suppressed"
    /\ why = "quiet hours"
    /\ file # Absent
    /\ HOME # ""

\* The stages of a run that plays, in order.
Pipeline ==
    <<"Start", "ConfigLoaded", "QuietCheck", "CooldownCheck", "SoundResolved", "Playing">>

\* C19 as stated: Playing and Suppressed are the only terminal states of an
\* invocation, and both map to exit code 0.
C19_OnlyPlayingOrSuppressed ==
    Exited => ended \in {"playing", "suppressed"} /\ exitCode = 0

\* C19 as corrected: a run passes through Start, ConfigLoaded, QuietCheck,
\* CooldownCheck, SoundResolved in this order; it ends in Playing (a player
\* was started) or, from ConfigLoaded, QuietCheck or CooldownCheck, in
\* Suppressed, both with exit code 0, or else with --help/--version
\* (exit code 0), a hard error or a caught panic (non-zero exit code).
C19_Terminals ==
    /\ \E n \in 1..5 :
         \/ stages = SubSeq(Pipeline, 1, n)
         \/ Exited /\ ended = "playing" /\ n = 5 /\ stages = Pipeline
         \/ Exited /\ ended = "suppressed" /\ n \in 2..4
            /\ stages = Append(SubSeq(Pipeline, 1, n), "Suppressed")
    /\ Exited =>
         /\ ended \in {"playing", "suppressed", "info", "error", "panic"}
         /\ ended = "playing" => stages = Pipeline /\ exitCode = 0 /\ launched # <<>>
         /\ ended = "suppressed" => stages[Len(stages)] = "Suppressed" /\ exitCode = 0
         /\ ended = "info" => stages = <<"Start">> /\ exitCode = 0
         /\ ended \in {"error", "panic"} =>
              /\ exitCode # 0
              /\ \A i \in 1..Len(stages) : stages[i] \notin {"Playing", "Suppressed"}

\* C19 witness: runs that ended in Playing after a cooldown check that wrote
\* the state file.
C19_Witness ==
    /\ Exited
    /\ ended = "playing"
    /\ stages = Pipeline
    /\ res[RunProc] = Result(FALSE, FALSE)
    /\ file # Absent
    /\ launched # <<>>

\* The errors run() returns.
HardErrors ==
    {"invalid event type format", "unknown event type", "no audio player available",
     "no playable sound found", "sound playback failed"}

\* C20: the exit code is 0 exactly when the run ends in playback started,
\* benign suppression, --help or --version; 1 exactly when run() returns a
\* hard error (invalid event name, no audio player, no playable sound,
\* playback failure); 2 exactly when a panic is caught at the top level; no
\* other exit code occurs.
C20_ExitCodes ==
    /\ ~Exited => exitCode = -1 /\ ended = "none"
    /\ Exited =>
         /\ exitCode \in {0, 1, 2}
         /\ exitCode = 0 <=> ended \in {"playing", "suppressed", "info"}
         /\ exitCode = 1 <=> (ended = "error" /\ why \in HardErrors)
         /\ exitCode = 2 <=> ended = "panic"
         /\ "ERROR" \in stderr <=> exitCode = 1
         /\ "PANIC" \in stderr <=> exitCode = 2

\* C20 witness: a run that ended with a caught panic.
C20_Witness ==
    /\ Exited
    /\ exitCode = 2
    /\ ended = "panic"

(***************************************************************************)
(* Properties of an invocation in its environment.                         *)
(***************************************************************************)
\* A run that has not exited and is not inside EnsureAudioPlayer's install
\* command can take a step of its own, whatever its stdin and its
\* subprocesses do.
WaitsOnlyForInstall == (~Exited /\ runPc # "install") => ENABLED ProgramStep

\* A run has exited with playback started while its stdin is still open,
\* the drain still reading and the player still running.
ExitedBeforeEnvironment ==
    /\ Exited
    /\ ended = "playing"
    /\ stdin = "open"
    /\ drain = "reading"
    /\ children # {}

\* C21: every invocation terminates without waiting on its environment: as
\* long as it has not exited it can take a step of its own, whether or not
\* stdin reaches end-of-file and whether or not a subprocess it started
\* exits.
C21_NeverWaitsOnEnvironment == ~Exited => ENABLED ProgramStep

(***************************************************************************)
(* Properties of sound resolution.                                         *)
(***************************************************************************)
\* A token that consists of the letters a-z and the underscore only.
IsLowercase(t) == t \notin Prefixes \cup {"/", ".", ":", "A"}

\* ^[a-z_]+$, read off the regular expression.
MatchesNameRule(name) == name # <<>> /\ \A i \in 1..Len(name) : IsLowercase(name[i])

\* s has a segment "..": two dots with a separator or an end of the string
\* on each side.
Separators == Prefixes \cup {"/", ":"}
HasDotDotSegment(s) ==
    \E i \in 1..(Len(s) - 1) :
        /\ s[i] = "." /\ s[i + 1] = "."
        /\ i = 1 \/ s[i - 1] \in Separators
        /\ i + 1 = Len(s) \/ s[i + 2] \in Separators

\* s is a bare path: not empty and without a recognised scheme.
IsBare(s) == s # <<>> /\ s[1] \notin Prefixes

ResolvesEachScheme ==
    /\ resolveOut.called
    /\ ~resolveOut.result.err
    /\ resolveIn.soundSpec \in {<<"custom:", "/", "a">>, <<"/", "a">>, <<"bundled:", "a">>,
                                 <<"pack:", "a", ":", "a">>, <<>>}

\* The entry of a bundled name is playable: a regular file, or a link to one.
Playable(files, path) == path \in DOMAIN files /\ files[path] \in {"file"}

\* resolveBundledSound on a valid name: "not found" exactly when the entry
\* is absent or, with danglingToo, a dangling link.
BundledNotFound(danglingToo) ==
    (/\ resolveOut.called
     /\ HasPrefix(resolveIn.soundSpec, "bundled:")
     /\ MatchesNameRule(Tail(resolveIn.soundSpec))
     /\ danglingToo
        \/ \A x \in DOMAIN resolveIn.files : resolveIn.files[x] # "dangling") =>
        LET path == <<"sounds">> \o Tail(resolveIn.soundSpec)
            r == resolveOut.result
        IN  IF Playable(resolveIn.files, path)
              THEN ~r.err /\ r.path = path
              ELSE r.err /\ r.path = NoPath

\* C23: for bundled:<name> with a valid name, resolution reports "not found"
\* (an error and no path) whenever the entry <pluginRoot>/sounds/<name>.aiff
\* is absent or a dangling symbolic link, and returns the path only when a
\* playable entry exists there.
C23_BundledNotFound == BundledNotFound(TRUE)

\* The same on machines without dangling links.
BundledNotFoundWithoutLinks == BundledNotFound(FALSE)

\* GetFallbackPath: the event's bundled sound if it exists, else the stop
\* sound if it exists, else ""; with danglingToo, on machines with dangling
\* links as well.
FallbackOrder(danglingToo) ==
    (/\ resolveOut.called
     /\ danglingToo
        \/ \A x \in DOMAIN resolveIn.files : resolveIn.files[x] # "dangling") =>
        LET own == <<"sounds", resolveIn.event>>
            stop == <<"sounds", "stop">>
        IN  resolveOut.fallback =
              IF Playable(resolveIn.files, own) THEN own
              ELSE IF Playable(resolveIn.files, stop) THEN stop
              ELSE NoPath

\* C24: GetFallbackPath(e) returns the event-specific bundled sound if it
\* exists, otherwise the bundled stop sound if it exists, otherwise the
\* empty string.
C24_FallbackOrder == FallbackOrder(TRUE)

\* The same on machines without dangling links.
FallbackOrderWithoutLinks == FallbackOrder(FALSE)

\* The entry point uses GetFallbackPath only after ResolveSoundPath failed,
\* and an empty result ends the run with "no playable sound found" and no
\* player launched.
FallbackOnlyAfterFailure ==
    LET r == ResolveSoundPath(gecResult.event.Sound, runEvent, soundFiles) IN
    /\ soundPath # NoPath =>
         soundPath = IF r.err THEN GetFallbackPath(runEvent, soundFiles) ELSE r.path
    /\ (Exited /\ why = "no playable sound found") =>
         /\ r.err
         /\ GetFallbackPath(runEvent, soundFiles) = NoPath
         /\ ended = "error"
         /\ \A i \in 1..Len(launched) : launched[i] = InstallCommand

(***************************************************************************)
(* Properties of Play.                                                     *)
(***************************************************************************)
\* The priority list of the Linux players, as the claim states it.
PriorityList == <<"mpv", "paplay", "aplay", "ffplay">>

\* C25: on Linux one call of Play launches at most one player, the first
\* of [mpv, paplay, aplay, ffplay] found on PATH; if that player fails to
\* start the error is returned and no other player is launched; if no
\* listed player is on PATH nothing is launched and the error is "no audio
\* player found".
C25_LinuxPriority ==
    (/\ playOut.called
     /\ playIn.platform = "linux"
     /\ playIn.soundPath \in DOMAIN playIn.files) =>
        LET available == {i \in 1..Len(PriorityList) : PriorityList[i] \in playIn.onPath} IN
        /\ Len(playOut.launched) <= 1
        /\ available = {} =>
             playOut.err /\ playOut.why = "no audio player found" /\ playOut.launched = <<>>
        /\ available # {} =>
             \/ /\ ~playOut.err
                /\ \E i \in available :
                     /\ playOut.launched = <<PriorityList[i]>>
                     /\ \A j \in available : i <= j
             \/ playOut.err /\ playOut.why = "start failed" /\ playOut.launched = <<>>

\* C25 witness: with aplay and ffplay on PATH, Play has launched aplay.
C25_Witness ==
    /\ playOut.called
    /\ playIn.platform = "linux"
    /\ playIn.onPath = {"aplay", "ffplay"}
    /\ playOut.launched = <<"aplay">>

\* Play has failed to start the first player on PATH and launched nothing.
StartFailed ==
    /\ playOut.called
    /\ playIn.platform = "linux"
    /\ playIn.onPath = {"paplay", "ffplay"}
    /\ playOut.err
    /\ playOut.why = "start failed"

(***************************************************************************)
(* Properties of the Logger.                                               *)
(***************************************************************************)
LogName(i) == <<"log", i>>
Lines(f) == {f[i] : i \in 1..Len(f)}

\* The only rotated files are <log>.0, <log>.1 and <log>.2.
RotationBounded ==
    /\ DOMAIN logFiles \subseteq {<<"log">>, LogName(0), LogName(1), LogName(2)}
    /\ Cardinality(DOMAIN logFiles \ {<<"log">>}) <= 3

\* The rotated files are ordered newest to oldest, the log being the newest.
NewestFirst ==
    /\ \A i, j \in 0..2 :
         (i < j /\ LogName(i) \in DOMAIN logFiles /\ LogName(j) \in DOMAIN logFiles) =>
            \A a \in Lines(logFiles[LogName(j)]), b \in Lines(logFiles[LogName(i)]) : a <= b
    /\ \A i \in 0..2 :
         (LogName(i) \in DOMAIN logFiles /\ <<"log">> \in DOMAIN logFiles) =>
            \A a \in Lines(logFiles[LogName(i)]), b \in Lines(logFiles[<<"log">>]) : a <= b

\* A Debug call of an enabled logger with a path finds the log at or above
\* MaxLogSize.
DebugFindsFullLog ==
    /\ logCalls' = logCalls + 1
    /\ logger.enabled
    /\ logger.filePath # <<>>
    /\ <<"log">> \in DOMAIN logFiles
    /\ Len(logFiles[<<"log">>]) >= MaxLogSize

\* The old content is in <log>.0, the rotated files have moved up by one
\* and the log holds only the new message.
RotatedByOne ==
    /\ LogName(0) \in DOMAIN logFiles'
    /\ logFiles'[LogName(0)] = logFiles[<<"log">>]
    /\ <<"log">> \in DOMAIN logFiles'
    /\ logFiles'[<<"log">>] = <<logCalls'>>
    /\ \A i \in 0..1 :
         LogName(i) \in DOMAIN logFiles =>
            /\ LogName(i + 1) \in DOMAIN logFiles'
            /\ logFiles'[LogName(i + 1)] = logFiles[LogName(i)]

\* A disabled logger or one with an empty path writes nothing.
SilentWhenOff == (~logger.enabled \/ logger.filePath = <<>>) => logFiles' = logFiles

FailsValidation(spec) ==
    \/ HasDotDotSegment(spec)
    \/ HasPrefix(spec, "custom:") /\ (Len(spec) = 1 \/ spec[2] # "/")
    \/ IsBare(spec) /\ spec[1] # "/"
    \/ HasPrefix(spec, "bundled:") /\ ~MatchesNameRule(Tail(spec))

\* The run has read the sound spec sound from its configuration.
Configured(sound) ==
    /\ gecEvent = runEvent
    /\ runEvent # ""
    /\ ~gecResult.panic
    /\ gecResult.event.Sound = sound

\* An audio player was launched.
PlayerLaunched == \E i \in 1..Len(launched) : launched[i] # InstallCommand

\* C27: an invocation whose configured sound specification fails
\* validation plays no sound in its place: it launches no audio player and
\* does not end in Playing.
C27_InvalidSpecNeverSubstituted ==
    (\E sound \in {gecResult.event.Sound} : Configured(sound) /\ FailsValidation(sound)) =>
        /\ ~PlayerLaunched
        /\ ended # "playing"

\* An invalid configured spec is refused by ResolveSoundPath itself, and
\* the sound that is played is the fallback of the event.
InvalidSpecPlaysFallback ==
    (\E sound \in {gecResult.event.Sound} : Configured(sound) /\ FailsValidation(sound)) =>
        /\ ResolveSoundPath(gecResult.event.Sound, runEvent, soundFiles).err
        /\ soundPath \in {NoPath, GetFallbackPath(runEvent, soundFiles)}

\* An invocation with a valid custom spec plays that file.
ValidSpecPlayed ==
    /\ Configured(<<"custom:">> \o CustomFile)
    /\ ended = "playing"
    /\ soundPath = CustomFile

\* The run took the not-throttled decision and then failed: no audio
\* player, no playable sound, or the launch of the player failed.
FailedAfterDecision ==
    /\ Exited
    /\ ended = "error"
    /\ why \in {"no audio player available", "no playable sound found",
                "sound playback failed"}

\* The next invocation for event e with cooldown c, at the present time,
\* finds a timestamp in the state file that throttles it.
NextThrottled(e, c) ==
    /\ c > 0
    /\ file.kind = "doc"
    /\ e \in DOMAIN file.lt
    /\ clock - file.lt[e] < c

\* C28: an invocation that takes the not-throttled decision and then fails
\* (no audio player, no playable sound, player launch error) leaves no
\* timestamp that throttles the next invocation of the same event inside
\* the cooldown window.
C28_TimestampOnlyWhenStarted ==
    FailedAfterDecision => ~NextThrottled(runEvent, deref(gecResult.event.Cooldown, 0))

\* The timestamp is in the state file before the player is looked for.
RecordedBeforePlayer ==
    /\ runPc = "player"
    /\ ~PlayerLaunched
    /\ NextThrottled(runEvent, deref(gecResult.event.Cooldown, 0))

\* A run that ends in Playing leaves the timestamp that throttles the next.
PlayingThrottlesNext ==
    /\ Exited
    /\ ended = "playing"
    /\ NextThrottled(runEvent, deref(gecResult.event.Cooldown, 0))

(***************************************************************************)
(* Properties of a run without a home directory.                           *)
(***************************************************************************)
\* The run is past the validation of its event name, HOME being empty.
ValidEventWithoutHome ==
    /\ HOME = ""
    /\ runEvent \in ValidEvents
    /\ runPc # "args"

\* C30: with an empty home directory an invocation for a valid event
\* creates or writes no file: no log, no cooldown state, no temporary file,
\* and no configuration file under the current working directory.
C30_NoFilesWithoutHome ==
    ValidEventWithoutHome =>
        /\ logged = <<>>
        /\ file \in {Absent, Doc([x \in CooldownEvents |-> StartClock - 1])}
        /\ configFiles[".claude/ccbell.config.json"] = NoFile

\* With an empty home directory neither the log nor the cooldown state is
\* written.
NoLogNoStateWithoutHome ==
    ValidEventWithoutHome =>
        /\ logged = <<>>
        /\ file \in {Absent, Doc([x \in CooldownEvents |-> StartClock - 1])}

\* With a home directory the default config file is created under it.
ConfigCreatedUnderHome ==
    /\ HOME = "home"
    /\ Exited
    /\ configFiles["home/.claude/ccbell.config.json"] = FileOf(Marshal(Default))
    /\ configFiles[".claude/ccbell.config.json"] = NoFile

(***************************************************************************)
(* Properties of concurrent cooldown updates.                              *)
(***************************************************************************)
\* The timestamp state file f holds for event e, 0 when it holds none.
StoredIn(f, e) == IF f.kind = "doc" /\ e \in DOMAIN f.lt THEN f.lt[e] ELSE 0

\* The calls of p and q, for different events with a cooldown, have both
\* completed with the not-throttled decision.
BothNotThrottled(p, q) ==
    /\ p # q
    /\ ev[p] # ev[q]
    /\ pc[p] = "ret" /\ pc[q] = "ret"
    /\ Checked(p) /\ Checked(q)
    /\ res[p] = Result(FALSE, FALSE) /\ res[q] = Result(FALSE, FALSE)

\* The state file holds the new timestamps of the calls of p and q.
BothStored(p, q) ==
    /\ StoredIn(file, ev[p]) = now[p]
    /\ StoredIn(file, ev[q]) = now[q]

\* No stored timestamp gets lower in this step.
NeverLower == \A e \in CooldownEvents : StoredIn(file', e) >= StoredIn(file, e)

\* C29 as stated: when two invocations for different events, both with a
\* cooldown, run in separate processes on one state file and both take the
\* not-throttled decision, the state file holds the new timestamps of both
\* after both have completed, and no event's stored timestamp is ever lower
\* than a value stored for it earlier.
C29_NoUpdateLost ==
    /\ [](\A p, q \in Procs : (~OneManager /\ BothNotThrottled(p, q)) => BothStored(p, q))
    /\ [][NeverLower]_vars

\* C29 as corrected: among invocations serialized by one Manager's lock no
\* update is lost and no stored timestamp gets lower; in separate processes
\* the save that renames last wins: the state file then holds the new
\* timestamp of that writer's event and, for every other event, the
\* timestamp that writer had loaded.
C29_LastWriterWins ==
    /\ [](\A p, q \in Procs : (OneManager /\ BothNotThrottled(p, q)) => BothStored(p, q))
    /\ [][OneManager => NeverLower]_vars
    /\ [][file' # file =>
            \E p \in Procs :
                /\ pc[p] = "rename" /\ pc'[p] = "ret"
                /\ file'.kind = "doc"
                /\ StoredIn(file', ev[p]) = now[p]
                /\ \A e \in CooldownEvents \ {ev[p]} :
                     StoredIn(file', e) = StoredIn(snap[p], e)]_vars

\* C29 witness: two processes have completed not-throttled calls for
\* different events; the file holds the timestamp of the last writer and,
\* for the other event, what the last writer had loaded, not the other
\* call's new timestamp.
C29_Witness ==
    \E p, q \in Procs :
        /\ ~OneManager
        /\ BothNotThrottled(p, q)
        /\ StoredIn(file, ev[q]) = now[q]
        /\ StoredIn(file, ev[p]) = StoredIn(snap[q], ev[p])
        /\ StoredIn(file, ev[p]) # now[p]

\* On one Manager both calls complete and both timestamps are stored.
BothStoredOnOneManager ==
    \E p, q \in Procs : OneManager /\ BothNotThrottled(p, q) /\ BothStored(p, q)

\* A stored timestamp has fallen back to an older value.
TimestampFellBack ==
    \E p, q \in Procs :
        /\ ~OneManager
        /\ BothNotThrottled(p, q)
        /\ now[p] > StartClock - 1
        /\ snap[p] = Doc([x \in CooldownEvents |-> StartClock - 1])
        /\ StoredIn(file, ev[p]) = StartClock - 1
====
